---- MODULE Spec2Model ----
(***************************************************************************)
(* TRC (The Riven Companion): the reconciliation engine of src/monitor.py  *)
(* as a state machine.  Three asyncio tasks share the engine's tables:     *)
(* the problem-scan loop ("main"), the debrid-monitor loop ("mon") and the *)
(* debrid-cleanup loop.  A task runs from one await to the next without    *)
(* interruption, so every action below is the code between two awaits: it  *)
(* receives the answer of the call the task was suspended in, runs the     *)
(* code up to the next await and leaves the task suspended there.  The     *)
(* Library (Riven) and the Debrid (Real-Debrid) are the environment: their *)
(* answers are drawn with \E.                                              *)
(***************************************************************************)
EXTENDS Integers, Sequences, FiniteSets, TLC

(***************************************************************************)
(* Bounds of the model.                                                    *)
(***************************************************************************)
\* torrent ids the Debrid hands out
MaxTorrents == 3
\* max_wait of _wait_for_file_selection, in seconds (30 in the code): the
\* status is polled MaxWait \div 2 times
MaxWait == 4
\* torrents in one answer of get_torrents to the cap enforcement
MaxListed == 3

(***************************************************************************)
(* Configuration (src/config.py, read from the environment), set small.    *)
(***************************************************************************)
max_active_rd_downloads == 1
max_riven_retries == 1
max_rd_torrents == 2
problem_states == {"Failed", "Unknown"}
rd_stuck_torrent_hours == 3

\* Config.rd_max_wait_hours, and the times since started_at the monitor
\* can find: up to the limit and past it
rd_max_wait_hours == 2
ElapsedHours == {rd_max_wait_hours, rd_max_wait_hours + 1}

\* the progress below which _monitor_rd_downloads calls a late torrent
\* stalled, and the progress a torrent can report: just below and at it
slow_progress == 10
Progresses == {slow_progress - 1, slow_progress}

\* _wait_for_file_selection polls every 2 seconds
poll_every == 2

\* the cleanup sweep: an untracked torrent waiting for its file selection
\* is an orphan after 3600 seconds; an active one is stuck below 5 percent
orphan_hours == 1
stuck_progress == 5

Tasks == {"main", "mon"}

(***************************************************************************)
(* Identifiers.  A Library id and a pseudo-id are strings in the code; the *)
(* model writes a string as the sequence of its pieces, so that the        *)
(* f-string of a parent key and startswith() are computed, not assumed.    *)
(***************************************************************************)
NoneStr == "None"

\* f"tmdb:{parent_tmdb_id}|tvdb:{parent_tvdb_id}"
ParentKey(tmdb, tvdb) == <<"tmdb:", tmdb, "|tvdb:", tvdb>>

\* str.startswith(prefix)
StartsWith(s, prefix) == Len(s) >= 1 /\ s[1] = prefix

\* a faulty variant: only the second prefix is recognised
IsPseudoId_tvdb_only(id) == StartsWith(id, "tvdb:")

\* item.id.startswith("tmdb:") or item.id.startswith("tvdb:")
IsPseudoId(id) == StartsWith(id, "tmdb:") \/ StartsWith(id, "tvdb:")

(***************************************************************************)
(* Torrent statuses of the Debrid adapter (src/rd_client.py).              *)
(***************************************************************************)
RawStatuses ==
    {"magnet_error", "magnet_conversion", "waiting_files_selection", "queued",
     "downloading", "downloaded", "error", "virus", "compressing", "uploading",
     "dead"}

\* a faulty variant: "virus" is not read as a failure
is_failed_without_virus(status) == status \in {"magnet_error", "error"}

is_failed(status) == status \in {"magnet_error", "error", "virus"}

\* a faulty variant: no status is read as dead
is_stalled_never(status) == FALSE

is_stalled(status) == status = "dead"
is_waiting_selection(status) == status = "waiting_files_selection"
\* a faulty variant: a dead torrent is read as active too
is_active_or_dead(status) ==
    status \in {"magnet_conversion", "queued", "downloading", "compressing",
                "uploading", "dead"}

is_active(status) ==
    status \in {"magnet_conversion", "queued", "downloading", "compressing",
                "uploading"}
is_complete(status) == status = "downloaded"

\* what get_torrent_info can answer: a torrent with a status of the
\* enumeration or one outside it (RDTorrent.from_dict defaults status to ""),
\* or an exception
InfoStatuses == RawStatuses \cup {""}

\* what the Debrid can answer to GET /torrents/info/{id}: a torrent, 404
\* for an id it no longer has, or another error status
DebridInfoAnswers == InfoStatuses \cup {"http_404", "http_error"}

\* RealDebridClient.get_torrent_info over _request: raise_for_status()
\* raises httpx.HTTPStatusError for every 4xx and 5xx answer alike, a 404
\* included; otherwise the caller gets the torrent, read here by its status
get_torrent_info(answer) ==
    IF answer \in {"http_404", "http_error"} THEN "exception" ELSE answer

(***************************************************************************)
(* The Library's catalogue: what get_problem_items may hand back.  A run   *)
(* has one title in trouble, a movie or the episodes of one show, seen in  *)
(* every state and release date the code tells apart.                      *)
(***************************************************************************)
NoParent == [tmdb_id |-> NoneStr, tvdb_id |-> NoneStr]

MediaItem(id, type, st, tmdb, parent, aired) ==
    [id |-> id, type |-> type, state |-> st, tmdb_id |-> tmdb,
     tvdb_id |-> NoneStr, parent_ids |-> parent, aired_at |-> aired]

ItemStates == {"Failed", "Completed"}
AiredAt == {"past", "future"}

MovieItems ==
    { MediaItem(<<"item1">>, "movie", s, "11", NoParent, a) :
        s \in ItemStates, a \in AiredAt }
EpisodeItems ==
    { MediaItem(<<"ep1">>, "episode", "Failed", "21", p, a) :
        p \in {NoParent, [tmdb_id |-> "2", tvdb_id |-> NoneStr]},
        a \in AiredAt }
Libraries == {MovieItems, EpisodeItems}

\* no item handled yet
NoItem == MediaItem(<<>>, "", "", NoneStr, NoParent, "past")

\* MediaItem.aired_at as the Library may write it: missing, a timestamp
\* without a zone ("2025-12-30 22:38:36"), one with a UTC offset
\* ("2025-12-30T22:38:36+00:00"), each before or after now, or no timestamp
AiredNaive == {"past", "future"}
AiredAware == {"past+00:00", "future+00:00"}
AiredForms == {NoneStr, "garbage"} \cup AiredNaive \cup AiredAware

\* datetime.fromisoformat(...) in is_released: a naive datetime, an aware
\* one, or ValueError
parse_aired(a) ==
    IF a \in AiredNaive THEN "naive"
    ELSE IF a \in AiredAware THEN "aware"
    ELSE "ValueError"

\* MediaItem.is_released: True without aired_at; aired_dt <= datetime.now()
\* for a naive aired_dt; comparing an aware aired_dt with the naive now
\* raises TypeError, which like ValueError is answered with True
is_released(item) ==
    IF item.aired_at = NoneStr THEN TRUE
    ELSE IF parse_aired(item.aired_at) = "naive" THEN item.aired_at = "past"
    ELSE TRUE

\* a movie the scrape finds many streams for
RankedMovieItems ==
    { MediaItem(<<"item2">>, "movie", "Failed", "12", NoParent, "past") }

\* the movie in trouble with its aired_at in every form
AiredMovieItems ==
    { MediaItem(<<"item1">>, "movie", "Failed", "11", NoParent, a) :
        a \in AiredForms }

\* MediaItem.get_parent_show_ids
get_parent_show_ids(item) == <<item.parent_ids.tmdb_id, item.parent_ids.tvdb_id>>

(***************************************************************************)
(* Streams: what scrape_item may hand back for an item, in the order of    *)
(* the answer's dict.                                                      *)
(***************************************************************************)
Stream(h, r) == [infohash |-> h, rank |-> r]

ScrapeAnswers(tmdb) ==
    IF tmdb = "11"
    THEN { <<>>, <<Stream("a1", 1), Stream("a2", 2)>> }
    ELSE IF tmdb = "12"
    THEN \* more streams than are kept, out of order and with equal ranks
         { <<>>, <<Stream("c1", 1)>>,
           <<Stream("c1", 1), Stream("c2", 3), Stream("c3", 2),
             Stream("c4", 3), Stream("c5", 2)>> }
    ELSE { <<>>, <<Stream("b1", 1)>> }

\* sorted(key=rank, reverse=True): a stable insertion sort, highest rank first
RECURSIVE InsertByRank(_, _)
InsertByRank(sorted, s) ==
    IF sorted = <<>> THEN <<s>>
    ELSE IF Head(sorted).rank >= s.rank
         THEN <<Head(sorted)>> \o InsertByRank(Tail(sorted), s)
         ELSE <<s>> \o sorted

RECURSIVE SortByRankDesc(_)
SortByRankDesc(streams) ==
    IF streams = <<>> THEN <<>>
    ELSE InsertByRank(SortByRankDesc(SubSeq(streams, 1, Len(streams) - 1)),
                      streams[Len(streams)])

\* a faulty variant: the list is cut but not sorted
sorted_streams_as_listed(streams) ==
    SubSeq(streams, 1,
           IF Len(streams) < max_rd_torrents THEN Len(streams)
           ELSE max_rd_torrents)

\* sorted(...)[:max_rd_torrents]
sorted_streams(streams) ==
    LET s == SortByRankDesc(streams)
    IN SubSeq(s, 1, IF Len(s) < max_rd_torrents THEN Len(s) ELSE max_rd_torrents)

(***************************************************************************)
(* State.                                                                  *)
(***************************************************************************)
VARIABLES
    \* TRCMonitor: the engine's tables.  item_trackers is the dict as a
    \* function, tracker_order its insertion order; rd_downloads is the dict
    \* as the sequence of its values in insertion order
    item_trackers, tracker_order, rd_downloads, processed_items, rr_index,
    \* StateManager._state, the persisted document
    state,
    \* Config.skip_riven_retry and the Library's items in trouble, fixed for
    \* the run
    skip_riven_retry, library,
    \* per task: the await it is suspended in; the caller _fill_rd_slots
    \* returns to; _fill_rd_slots' local total_active; _try_add_one_stream's
    \* locals (tracker, the stream index it read, torrent_id); the polls
    \* _wait_for_file_selection has made
    pc, ret, total_active, att, polls,
    \* _check_problem_items: parent_shows_queued, the tracker being handled
    parent_shows_queued, cur,
    \* _monitor_rd_downloads: the snapshot list(self.rd_downloads.items())
    \* still to check (its head is being checked), to_remove
    mon_q, to_remove,
    \* the Debrid: the next torrent id it hands out
    next_tid,
    \* the debrid-cleanup loop: the await it is suspended in; the list
    \* get_torrents answered; the torrents of the for loop still to delete
    \* (its head is being deleted); the snapshot tracked_ids; the hours the
    \* host's clock is ahead of UTC
    cpc, all_torrents, todo, tracked_ids, utc_offset,
    \* history: add_magnet calls answered, per (tracker, position); ids
    \* remove_item was called with; infohashes add_magnet refused with
    \* ContentInfringementError; per task the answer its last step got
    \* inside _try_add_one_stream; the ids the cleanup loop's delete_torrent
    \* calls of the current sweep or cap enforcement were made with
    attempts, removed_ids, refused, resp, deleted,
    \* the wall clock as the retry stage reads it: per tracker the time since
    \* its last_retry and since the start of its last library retry, in units
    \* of age_unit seconds and no further than MaxAge
    retry_age, attempt_age,
    \* the loop variable item of _check_problem_items: the entry of the scan
    \* list the loop handled last
    scan_item,
    \* the state file as a restarted process would read it; where
    \* StateManager.save stands; the text of the state file when the last
    \* mutator was called; the number of restarts so far
    file, spc, before, boots,
    \* a tracker on its way through to_dict and from_dict: the object, the
    \* dict written last, how the object came to be
    trip,
    \* after a restart: per restored download the ItemTracker object
    \* RDDownloadTracker.from_dict built for it
    own_tracker,
    \* the trackers _fill_rd_slots picked, in order
    picks,
    \* an adapter method under way: what was asked, what went over the wire
    \* and what it returned
    call,
    \* start() and stop(): the flag, the event, the three loop tasks
    halt

engine == <<item_trackers, tracker_order, rd_downloads, processed_items, state>>
tasks == <<pc, ret, total_active, att, polls, rr_index>>
scan == <<parent_shows_queued, cur>>
mon == <<mon_q, to_remove>>
history == <<attempts, removed_ids, refused, resp>>
cleanup == <<cpc, all_torrents, todo, tracked_ids, utc_offset, deleted>>
wall == <<retry_age, attempt_age>>
store_io == <<file, spc, before, boots>>
later == <<trip, own_tracker, picks, call, halt>>
aside == <<wall, scan_item, store_io, later>>
env == <<next_tid, skip_riven_retry, library, cleanup, aside>>
vars == <<engine, tasks, scan, mon, env, history>>

NoAtt == [key |-> <<>>, idx |-> 0, tid |-> 0]

\* an answer received inside _try_add_one_stream: what it was and, for a
\* refused magnet, its infohash
Resp(ans, h) == [ans |-> ans, infohash |-> h]

\* the monitor's look at a torrent that is neither complete, failed nor
\* dead: its status, the hours since download.started_at, its progress
Watched(ans, elapsed, progress) ==
    [ans |-> ans, infohash |-> "", elapsed |-> elapsed, progress |-> progress]
NoResp == Resp("", "")

\* the answer of scrape_item as the task got it
Scraped(streams) == [ans |-> "scraped", infohash |-> "", streams |-> streams]

(***************************************************************************)
(* Dicts and the State Store (src/persistence.py).                         *)
(***************************************************************************)
Put(f, k, v) == [x \in DOMAIN f \cup {k} |-> IF x = k THEN v ELSE f[x]]
Drop(f, k) == [x \in DOMAIN f \ {k} |-> f[x]]
Range(s) == { s[i] : i \in DOMAIN s }

\* the torrent ids that are keys of the rd_downloads dict
TorrentIds(rds) == { rds[i].torrent_id : i \in DOMAIN rds }
\* a faulty variant: nothing is deleted
DelDownloads_none(rds, tids) == rds

\* del self.rd_downloads[tid] for every tid of the set that is a key
DelDownloads(rds, tids) == SelectSeq(rds, LAMBDA d : d.torrent_id \notin tids)

\* ItemTracker.to_dict
tracker_to_dict(t) ==
    [item_id |-> t.item_id, item |-> t.item, retry_count |-> t.retry_count,
     last_retry |-> t.last_retry,
     manual_scrape_started |-> t.manual_scrape_started,
     streams |-> t.streams, stream_index |-> t.stream_index]

\* RDDownloadTracker.to_dict: the item tracker is written out in full
download_to_dict(d, its) ==
    [torrent_id |-> d.torrent_id, infohash |-> d.infohash,
     item_tracker |-> tracker_to_dict(its[d.item_id]),
     stream_index |-> d.stream_index]

\* a faulty variant: the item tracker is not written to the store
set_item_tracker_lost(st, k, data) == st

set_item_tracker(st, k, data) ==
    [st EXCEPT !.item_trackers = Put(@, k, data)]
remove_item_tracker(st, k) ==
    [st EXCEPT !.item_trackers = Drop(@, k)]
\* a faulty variant: the download tracker is not written to the store
set_rd_download_lost(st, tid, data) == st

set_rd_download(st, tid, data) ==
    [st EXCEPT !.rd_downloads = Put(@, tid, data)]
\* a faulty variant: the store keeps the download tracker
remove_rd_download_kept(st, tid) == st

remove_rd_download(st, tid) == [st EXCEPT !.rd_downloads = Drop(@, tid)]

RECURSIVE remove_rd_downloads(_, _)
remove_rd_downloads(st, tids) ==
    IF tids = {} THEN st
    ELSE LET t == CHOOSE x \in tids : TRUE
         IN remove_rd_downloads([st EXCEPT !.rd_downloads = Drop(@, t)],
                                tids \ {t})
\* a faulty variant: adding a key that is already recorded drops it
add_processed_item_flip(st, k) ==
    IF k \in Range(st.processed_items)
    THEN [st EXCEPT !.processed_items = SelectSeq(@, LAMBDA x : x # k)]
    ELSE [st EXCEPT !.processed_items = Append(@, k)]

add_processed_item(st, k) ==
    IF k \in Range(st.processed_items) THEN st
    ELSE [st EXCEPT !.processed_items = Append(@, k)]

\* StateManager.__init__: self._state
EmptyState ==
    [item_trackers |-> <<>>, rd_downloads |-> <<>>, processed_items |-> <<>>]

\* a faulty variant: the processed items are not written
dumps_without_processed(doc) ==
    <<"{", doc.item_trackers, doc.rd_downloads, <<>>, "}">>

\* json.dump(self._state, f): the text of the document, piece by piece
dumps(doc) ==
    <<"{", doc.item_trackers, doc.rd_downloads, doc.processed_items, "}">>

\* json.loads(content): the document, or JSONDecodeError for a text that
\* is not a whole document
loads(text) ==
    IF Len(text) = 5 /\ text[5] = "}"
    THEN [item_trackers |-> text[2], rd_downloads |-> text[3],
          processed_items |-> text[4]]
    ELSE "JSONDecodeError"

\* self._state after StateManager() and load() on a state file with this
\* text: an empty file and one that does not parse leave the new object's
\* empty state
load(text) ==
    IF text = <<>> \/ Len(text) < 5 THEN EmptyState
    ELSE loads(text)

\* the state file and the store when no save has been interrupted
StoreAtRest(st) ==
    /\ file = dumps(st)
    /\ spc = "idle"
    /\ before = dumps(st)
    /\ boots = 0

(***************************************************************************)
(* _fill_rd_slots and what follows its return.  Between two awaits a task  *)
(* runs alone, so where it suspends next is a function of the tables it    *)
(* leaves: a record [pc, ret, total, att, rr].                             *)
(***************************************************************************)
At(where, rr) ==
    [pc |-> where, ret |-> "", total |-> 0, att |-> NoAtt, rr |-> rr]

\* pending_trackers of _fill_rd_slots, in the dict's order
pending_trackers(its, order) ==
    SelectSeq(order, LAMBDA k :
        /\ its[k].manual_scrape_started
        /\ its[k].streams # <<>>
        /\ its[k].stream_index < Len(its[k].streams))

RECURSIVE FillFrom(_, _, _, _, _, _)
\* the caller's code after _fill_rd_slots returns: r names the call site
AfterFill(r, rr, its, order, rds) ==
    CASE r = "scrape" ->
            \* _start_manual_scrape returns into the loop of
            \* _check_problem_items
            At("items", rr)
      [] r = "mon_removed" ->
            \* _monitor_rd_downloads returns and _rd_monitor_loop fills again
            FillFrom(Len(rds), "mon_end", rr, its, order, rds)
      [] OTHER -> At("idle", rr)

\* the loop of _fill_rd_slots entered with total_active = total: the next
\* stream is picked round-robin and _try_add_one_stream suspends in
\* add_magnet, or the loop ends
FillFrom(total, r, rr, its, order, rds) ==
    LET pend == pending_trackers(its, order)
    IN IF total < max_active_rd_downloads /\ pend # <<>>
       THEN LET k == pend[(rr % Len(pend)) + 1]
            IN [pc |-> "add_magnet", ret |-> r, total |-> total,
                att |-> [key |-> k, idx |-> its[k].stream_index, tid |-> 0],
                rr |-> (rr + 1) % Len(pend)]
       ELSE AfterFill(r, rr, its, order, rds)

\* _fill_rd_slots called from call site r
fill_rd_slots(r, rr, its, order, rds) ==
    FillFrom(Len(rds), r, rr, its, order, rds)

\* the for loop of _check_problem_items goes on with the next item, if any
NextItem(rr) == At("items", rr)

\* task p suspends at n, having got the answer r
SuspendWith(p, n, r) ==
    /\ pc' = [pc EXCEPT ![p] = n.pc]
    /\ ret' = [ret EXCEPT ![p] = n.ret]
    /\ total_active' = [total_active EXCEPT ![p] = n.total]
    /\ att' = [att EXCEPT ![p] = n.att]
    /\ polls' = [polls EXCEPT ![p] = 0]
    /\ rr_index' = n.rr
    /\ resp' = [resp EXCEPT ![p] = r]

\* task p suspends at n
Suspend(p, n) == SuspendWith(p, n, NoResp)

\* task p stays inside _try_add_one_stream, suspended at where, having got
\* the answer r
Within(p, where, tid, npolls, r) ==
    /\ pc' = [pc EXCEPT ![p] = where]
    /\ att' = [att EXCEPT ![p].tid = tid]
    /\ polls' = [polls EXCEPT ![p] = npolls]
    /\ resp' = [resp EXCEPT ![p] = r]
    /\ UNCHANGED <<ret, total_active, rr_index>>

\* a faulty variant: the index moves by two
advance_by_two(its, k) == [its EXCEPT ![k].stream_index = @ + 2]

\* tracker.stream_index += 1
advance(its, k) == [its EXCEPT ![k].stream_index = @ + 1]

\* _try_add_one_stream returned into _fill_rd_slots with the tables its,
\* rds, its last answer r: on success total_active is read again; below
\* the limit the loop sleeps before its next round, else it ends
AttemptEnd(p, success, its, rds, r) ==
    LET total == IF success THEN Len(rds) ELSE total_active[p]
    IN SuspendWith(p,
         IF total < max_active_rd_downloads
         THEN [pc |-> "fill_sleep", ret |-> ret[p], total |-> total,
               att |-> NoAtt, rr |-> rr_index]
         ELSE AfterFill(ret[p], rr_index, its, tracker_order, rds),
         r)

\* the end of _try_add_one_stream without a download: the index advances
\* and the tracker is persisted
AttemptFailed(p, r) ==
    LET k == att[p].key
        its == advance(item_trackers, k)
    IN /\ item_trackers' = its
       /\ state' = set_item_tracker(state, k, tracker_to_dict(its[k]))
       /\ AttemptEnd(p, FALSE, its, rd_downloads, r)
       /\ UNCHANGED <<tracker_order, rd_downloads, processed_items>>

\* the stream _try_add_one_stream read before its first await
att_stream(p) == item_trackers[att[p].key].streams[att[p].idx + 1]

Count(bag, x) == IF x \in DOMAIN bag THEN bag[x] ELSE 0

\* what add_magnet can do: answer with an id, answer without one, raise
\* ContentInfringementError, raise something else
AddMagnetAnswers == {"id", "no_id", "infringement", "error"}

\* result = await self.rd.add_magnet(magnet)
AddMagnetDone(p) ==
    /\ pc[p] = "add_magnet"
    /\ attempts' = Put(attempts, <<att[p].key, att[p].idx>>,
                       Count(attempts, <<att[p].key, att[p].idx>>) + 1)
    /\ \E ans \in AddMagnetAnswers :
         /\ refused' = IF ans = "infringement"
                        THEN refused \cup {att_stream(p).infohash}
                        ELSE refused
         /\ IF ans = "id"
            THEN /\ next_tid <= MaxTorrents
                 /\ next_tid' = next_tid + 1
                 /\ Within(p, "poll", next_tid, 0, Resp("id", ""))
                 /\ UNCHANGED engine
            ELSE /\ AttemptFailed(p, Resp(ans, att_stream(p).infohash))
                 /\ UNCHANGED next_tid
    /\ UNCHANGED <<scan, mon, skip_riven_retry, library, cleanup,
                   removed_ids>>

\* the same with nothing else moving
AddMagnetResp(p) == AddMagnetDone(p) /\ UNCHANGED aside

\* torrent = await self.rd.get_torrent_info(torrent_id), in
\* _wait_for_file_selection; polls[p] counts the polls that ended in a
\* sleep, so it is 0 while the first poll's answer is being acted on
PollResp(p) ==
    /\ pc[p] = "poll"
    /\ \E ans \in InfoStatuses \cup {"exception"} :
         IF ans = "exception"
         THEN Within(p, "delete", att[p].tid, 0, Resp(ans, ""))
         ELSE IF is_waiting_selection(ans)
         THEN Within(p, "select", att[p].tid, polls[p], Resp(ans, ""))
         ELSE IF is_failed(ans) \/ is_stalled(ans)
         THEN Within(p, "delete", att[p].tid, 0, Resp(ans, ""))
         ELSE IF is_complete(ans) \/ is_active(ans)
         THEN Within(p, "select", att[p].tid, polls[p], Resp(ans, ""))
         ELSE Within(p, "poll_sleep", att[p].tid, polls[p] + 1,
                     Resp(ans, ""))
    /\ UNCHANGED <<engine, scan, mon, env, attempts,
                   removed_ids, refused>>

\* await asyncio.sleep(2) in _wait_for_file_selection: the next poll, or
\* after max_wait // 2 polls the timeout
PollSleepDone(p) ==
    /\ pc[p] = "poll_sleep"
    /\ IF polls[p] < MaxWait \div poll_every
       THEN Within(p, "poll", att[p].tid, polls[p], resp[p])
       ELSE Within(p, "delete", att[p].tid, 0, Resp("timeout", ""))
    /\ UNCHANGED <<engine, scan, mon, env, attempts,
                   removed_ids, refused>>

\* the RDDownloadTracker _try_add_one_stream builds
new_download(p, its) ==
    [torrent_id |-> att[p].tid, infohash |-> att_stream(p).infohash,
     item_id |-> att[p].key, stream_index |-> its[att[p].key].stream_index]

\* files_selected = await self.rd.select_files(torrent_id, "all")
SelectResp(p) ==
    /\ pc[p] = "select"
    /\ \E files_selected \in BOOLEAN :
         IF files_selected
         THEN LET k == att[p].key
                  d == new_download(p, item_trackers)
                  rds == Append(rd_downloads, d)
                  its == advance(item_trackers, k)
              IN /\ rd_downloads' = rds
                 /\ item_trackers' = its
                 /\ state' = set_item_tracker(
                        set_rd_download(state, d.torrent_id,
                                        download_to_dict(d, item_trackers)),
                        k, tracker_to_dict(its[k]))
                 /\ AttemptEnd(p, TRUE, its, rds, Resp("added", ""))
                 /\ UNCHANGED <<tracker_order, processed_items>>
         ELSE /\ Within(p, "delete", att[p].tid, 0, Resp("not_selected", ""))
              /\ UNCHANGED engine
    /\ UNCHANGED <<scan, mon, env, attempts,
                   removed_ids, refused>>

\* await self.rd.delete_torrent(torrent_id) in _try_add_one_stream
DeleteResp(p) ==
    /\ pc[p] = "delete"
    /\ AttemptFailed(p, Resp("deleted", ""))
    /\ UNCHANGED <<scan, mon, env, attempts,
                   removed_ids, refused>>

\* await asyncio.sleep(torrent_add_delay_seconds) in _fill_rd_slots
FillSleepDone(p) ==
    /\ pc[p] = "fill_sleep"
    /\ Suspend(p, FillFrom(total_active[p], ret[p], rr_index, item_trackers,
                           tracker_order, rd_downloads))
    /\ UNCHANGED <<engine, scan, mon, env, attempts,
                   removed_ids, refused>>

(***************************************************************************)
(* The problem-scan loop: _main_check_loop, _check_problem_items,          *)
(* _handle_season_episode, _handle_problem_item, _start_manual_scrape.     *)
(* The items of one answer are drawn one by one as the loop reaches them,   *)
(* and so is the end of the list.                                          *)
(***************************************************************************)
ItemTracker(item_id, item) ==
    [item_id |-> item_id, item |-> item, retry_count |-> 0,
     last_retry |-> NoneStr, manual_scrape_started |-> FALSE,
     streams |-> <<>>, stream_index |-> 0]

\* the pseudo-item _handle_season_episode builds for the parent show
parent_item(item, parent_key) ==
    [id |-> parent_key, type |-> "show", state |-> item.state,
     tmdb_id |-> item.parent_ids.tmdb_id, tvdb_id |-> item.parent_ids.tvdb_id,
     parent_ids |-> NoParent, aired_at |-> item.aired_at]

\* while self._running: await self._check_problem_items()
MainWake ==
    /\ pc["main"] = "idle"
    /\ Suspend("main", At("scan", rr_index))
    /\ UNCHANGED <<engine, scan, mon, env, attempts,
                   removed_ids, refused>>

\* items = await self.riven.get_problem_items(...)
ScanResp ==
    /\ pc["main"] = "scan"
    /\ Suspend("main", NextItem(rr_index))
    /\ parent_shows_queued' = {}
    /\ UNCHANGED <<engine, cur, mon, env, attempts,
                   removed_ids, refused>>

\* the list of items is at its end: _check_problem_items returns and
\* _main_check_loop calls _fill_rd_slots
ItemsEnd ==
    /\ pc["main"] = "items"
    /\ Suspend("main", fill_rd_slots("main_end", rr_index, item_trackers,
                                      tracker_order, rd_downloads))
    /\ UNCHANGED <<engine, scan, mon, env, attempts,
                   removed_ids, refused>>

\* the handling of the item ends without a call: on to the next item
Skip(its, order, st) ==
    /\ item_trackers' = its
    /\ tracker_order' = order
    /\ state' = st
    /\ cur' = <<>>
    /\ Suspend("main", NextItem(rr_index))
    /\ UNCHANGED <<rd_downloads, processed_items>>

\* _start_manual_scrape up to its await of scrape_item
StartManualScrape(k, its, order) ==
    LET its2 == [its EXCEPT ![k].manual_scrape_started = TRUE]
        st2 == set_item_tracker(state, its2[k].item.id,
                                tracker_to_dict(its2[k]))
    IN IF its2[k].item.id \in processed_items
       THEN Skip(its2, order, st2)
       ELSE /\ item_trackers' = its2
            /\ tracker_order' = order
            /\ state' = st2
            /\ cur' = k
            /\ Suspend("main", At("scrape", rr_index))
            /\ UNCHANGED <<rd_downloads, processed_items>>

\* the retry stage shared by _handle_problem_item and
\* _handle_season_episode, up to the first await; elapsed says whether
\* more than retry_interval_seconds have passed since last_retry
DriveTracker(k, its, order, elapsed, pseudo) ==
    IF skip_riven_retry \/ its[k].retry_count >= max_riven_retries
    THEN IF ~its[k].manual_scrape_started
         THEN StartManualScrape(k, its, order)
         ELSE Skip(its, order, state)
    ELSE IF its[k].last_retry = NoneStr \/ elapsed
    THEN IF pseudo
         THEN LET its2 == [its EXCEPT ![k].retry_count = @ + 1,
                                      ![k].last_retry = "now"]
              IN /\ item_trackers' = its2
                 /\ tracker_order' = order
                 /\ state' = set_item_tracker(state, k,
                                              tracker_to_dict(its2[k]))
                 /\ cur' = k
                 /\ Suspend("main", At("retry_add_parent", rr_index))
                 /\ UNCHANGED <<rd_downloads, processed_items>>
         ELSE /\ item_trackers' = its
              /\ tracker_order' = order
              /\ cur' = k
              /\ Suspend("main", At("retry_remove", rr_index))
              /\ UNCHANGED <<rd_downloads, processed_items, state>>
    ELSE Skip(its, order, state)

\* the body of "for item in items" in _check_problem_items for one item, up
\* to the first await; elapsed says whether more than
\* retry_interval_seconds have passed since the tracker's last_retry
HandleItem(item, elapsed) ==
    LET ids == get_parent_show_ids(item)
        parent_key == ParentKey(ids[1], ids[2])
    IN IF ~is_released(item)
       THEN /\ Skip(item_trackers, tracker_order, state)
            /\ UNCHANGED parent_shows_queued
       ELSE IF item.type \in {"season", "episode"}
       THEN \* _handle_season_episode
            IF (ids[1] = NoneStr /\ ids[2] = NoneStr)
               \/ parent_key \in parent_shows_queued
            THEN /\ Skip(item_trackers, tracker_order, state)
                 /\ UNCHANGED parent_shows_queued
            ELSE /\ parent_shows_queued' =
                      parent_shows_queued \cup {parent_key}
                 /\ IF parent_key \in DOMAIN item_trackers
                    THEN DriveTracker(parent_key, item_trackers,
                             tracker_order, elapsed, TRUE)
                    ELSE DriveTracker(parent_key,
                             Put(item_trackers, parent_key,
                                 ItemTracker(parent_key,
                                     parent_item(item, parent_key))),
                             Append(tracker_order, parent_key),
                             elapsed, TRUE)
       ELSE \* a movie or a show: get or create, _handle_problem_item
            /\ UNCHANGED parent_shows_queued
            /\ IF item.id \in DOMAIN item_trackers
               THEN IF item_trackers[item.id].item.state
                        \notin problem_states
                    THEN Skip(Drop(item_trackers, item.id),
                              SelectSeq(tracker_order,
                                        LAMBDA k : k # item.id),
                              remove_item_tracker(state, item.id))
                    ELSE DriveTracker(item.id, item_trackers,
                             tracker_order, elapsed, FALSE)
               ELSE IF item.state \notin problem_states
                    THEN \* created and dropped again in one go
                         Skip(item_trackers, tracker_order,
                              remove_item_tracker(state, item.id))
                    ELSE DriveTracker(item.id,
                             Put(item_trackers, item.id,
                                 ItemTracker(item.id, item)),
                             Append(tracker_order, item.id),
                             elapsed, FALSE)

\* one round of "for item in items" in _check_problem_items; what the clock
\* shows is any
MainItem ==
    /\ pc["main"] = "items"
    /\ \E item \in library, elapsed \in BOOLEAN : HandleItem(item, elapsed)
    /\ UNCHANGED <<mon, env, attempts, removed_ids, refused>>

\* removed = await self.riven.remove_item(item.id), in _handle_problem_item
RetryRemoveResp ==
    /\ pc["main"] = "retry_remove"
    /\ removed_ids' = removed_ids \cup {item_trackers[cur].item.id}
    /\ \E removed \in BOOLEAN :
         IF removed
         THEN /\ Suspend("main", At("retry_add", rr_index))
              /\ UNCHANGED cur
         ELSE /\ Suspend("main", NextItem(rr_index))
              /\ cur' = <<>>
    /\ UNCHANGED <<engine, parent_shows_queued, mon, env, attempts, refused>>

\* added = await self.riven.add_item(...), in _handle_problem_item, and the
\* code after it: the retry is counted only when the item was added
RetryAddDone ==
    /\ pc["main"] = "retry_add"
    /\ \E added \in BOOLEAN :
         LET its == IF added
                    THEN [item_trackers EXCEPT ![cur].retry_count = @ + 1,
                                               ![cur].last_retry = "now"]
                    ELSE item_trackers
         IN /\ item_trackers' = its
            /\ state' = IF added
                        THEN set_item_tracker(state, its[cur].item.id,
                                              tracker_to_dict(its[cur]))
                        ELSE state
    /\ Suspend("main", NextItem(rr_index))
    /\ cur' = <<>>
    /\ UNCHANGED <<tracker_order, rd_downloads, processed_items,
                   parent_shows_queued>>

RetryAddResp ==
    /\ RetryAddDone
    /\ UNCHANGED <<mon, env, attempts, removed_ids, refused>>

\* added = await self.riven.add_item(...), in _handle_season_episode
RetryAddParentResp ==
    /\ pc["main"] = "retry_add_parent"
    /\ Suspend("main", NextItem(rr_index))
    /\ cur' = <<>>
    /\ UNCHANGED <<engine, parent_shows_queued, mon, env, attempts, removed_ids, refused>>

\* self.processed_items.add(k); self.state.add_processed_item(k)
mark_processed(k) ==
    /\ processed_items' = processed_items \cup {k}
    /\ state' = add_processed_item(state, k)

\* streams = await self.riven.scrape_item(...), in _start_manual_scrape
ScrapeResp ==
    /\ pc["main"] = "scrape"
    /\ \E raised \in BOOLEAN,
          ans \in ScrapeAnswers(item_trackers[cur].item.tmdb_id) :
         LET item == item_trackers[cur].item
             sorted == sorted_streams(ans)
         IN IF raised \/ sorted = <<>>
            THEN /\ mark_processed(item.id)
                 /\ SuspendWith("main", NextItem(rr_index),
                                IF raised THEN Resp("scrape_raised", "")
                                ELSE Scraped(ans))
                 /\ UNCHANGED <<item_trackers, tracker_order, rd_downloads>>
            ELSE LET its == [item_trackers EXCEPT ![cur].streams = sorted,
                                                  ![cur].stream_index = 0]
                 IN /\ item_trackers' = its
                    /\ state' = set_item_tracker(state, item.id,
                                                 tracker_to_dict(its[cur]))
                    /\ SuspendWith("main",
                                   fill_rd_slots("scrape", rr_index, its,
                                                 tracker_order, rd_downloads),
                                   Scraped(ans))
                    /\ UNCHANGED <<tracker_order, rd_downloads,
                                   processed_items>>
    /\ cur' = <<>>
    /\ UNCHANGED <<parent_shows_queued, mon, env,
                   attempts, removed_ids, refused>>

(***************************************************************************)
(* The debrid-monitor loop: _rd_monitor_loop, _monitor_rd_downloads.       *)
(***************************************************************************)
\* a faulty variant: the letters are left as they are
Lower_as_is(h) == h

\* str.lower() on the infohashes of the model
Lower(h) == CASE h = "A1" -> "a1" [] h = "B1" -> "b1" [] OTHER -> h

\* what scrape_item may answer when a completed download is reapplied
ReapplyAnswers(tmdb) ==
    ScrapeAnswers(tmdb) \cup
    {<<Stream(IF tmdb = "11" THEN "A1" ELSE "B1", 3)>>}

\* the download being checked and its item (download.item_tracker.item)
mon_download == Head(mon_q)
mon_item == item_trackers[mon_download.item_id].item

\* the for loop of _monitor_rd_downloads goes on with to_remove = tr,
\* processed_items = proc and the store st, the last answer having been r:
\* the next download, or after the last one the removals and the slot
\* filling
MonAdvanceWith(tr, proc, st, r) ==
    /\ processed_items' = proc
    /\ UNCHANGED <<item_trackers, tracker_order>>
    /\ IF Len(mon_q) > 1
       THEN /\ mon_q' = Tail(mon_q)
            /\ to_remove' = tr
            /\ state' = st
            /\ SuspendWith("mon", At("mon_info", rr_index), r)
            /\ UNCHANGED rd_downloads
       ELSE LET rds == DelDownloads(rd_downloads, tr)
            IN /\ mon_q' = <<>>
               /\ to_remove' = {}
               /\ rd_downloads' = rds
               /\ state' = remove_rd_downloads(st,
                               tr \cap TorrentIds(rd_downloads))
               /\ SuspendWith("mon",
                    fill_rd_slots(IF tr # {} THEN "mon_removed" ELSE "mon_end",
                                  rr_index, item_trackers, tracker_order, rds),
                    r)

MonAdvance(tr, proc, st) == MonAdvanceWith(tr, proc, st, NoResp)

\* the monitor stays with the same download, suspended at where, having got
\* the answer r
MonAtWith(where, r) ==
    /\ SuspendWith("mon", At(where, rr_index), r)
    /\ UNCHANGED <<engine, mon>>

\* the monitor stays with the same download, suspended at where
MonAt(where) == MonAtWith(where, NoResp)

\* while self._running: await self._monitor_rd_downloads(); no download:
\* it returns and _rd_monitor_loop fills the slots
MonWake ==
    /\ pc["mon"] = "idle"
    /\ IF rd_downloads = <<>>
       THEN /\ Suspend("mon", fill_rd_slots("mon_end", rr_index, item_trackers,
                                            tracker_order, rd_downloads))
            /\ UNCHANGED mon
       ELSE /\ mon_q' = rd_downloads
            /\ to_remove' = {}
            /\ Suspend("mon", At("mon_info", rr_index))
    /\ UNCHANGED <<engine, scan, env, attempts,
                   removed_ids, refused>>

\* a faulty variant: a late active torrent is stalled whatever its progress
stalled_past_wait_any_progress(elapsed, status, progress) ==
    elapsed > rd_max_wait_hours /\ is_active(status)

\* elif elapsed > self.config.rd_max_wait_seconds:
\*     if torrent.is_active and torrent.progress < 10:
stalled_past_wait(elapsed, status, progress) ==
    elapsed > rd_max_wait_hours /\ is_active(status)
    /\ progress < slow_progress

\* torrent = await self.rd.get_torrent_info(torrent_id); elapsed is the
\* time since download.started_at, progress the torrent's (both left out
\* where the code decides before it reads them).  The handler of TorrentNotFoundError is never
\* entered: get_torrent_info raises no such error, and a 404 ends in the
\* handler of Exception like any other failure.
MonInfoResp ==
    /\ pc["mon"] = "mon_info"
    /\ \E answer \in DebridInfoAnswers, elapsed \in ElapsedHours,
          progress \in Progresses :
         LET ans == get_torrent_info(answer)
             r == IF \/ ans = "exception"
                     \/ is_complete(ans) \/ is_failed(ans) \/ is_stalled(ans)
                  THEN Resp(answer, "")
                  ELSE Watched(answer, elapsed, progress)
         IN /\ r = Resp(answer, "")
                 => elapsed = rd_max_wait_hours /\ progress = slow_progress
            /\ IF ans = "exception"
               THEN MonAdvanceWith(to_remove, processed_items, state, r)
               ELSE IF is_complete(ans) THEN MonAtWith("mon_scrape", r)
               ELSE IF is_failed(ans) \/ is_stalled(ans)
               THEN MonAtWith("mon_delete", r)
               ELSE IF stalled_past_wait(elapsed, ans, progress)
               THEN MonAtWith("mon_delete", r)
               ELSE MonAdvanceWith(to_remove, processed_items, state, r)
    /\ UNCHANGED <<scan, env, attempts, removed_ids, refused>>

\* the completed download has been reapplied, the last answer having been
\* r: to_remove.append(torrent_id) and the item is recorded as processed
ReapplyDoneWith(r) ==
    MonAdvanceWith(to_remove \cup {mon_download.torrent_id},
                   processed_items \cup {mon_download.item_id},
                   add_processed_item(state, mon_download.item_id), r)

ReapplyDone == ReapplyDoneWith(NoResp)

\* a faulty variant: every scrape counts as a match
found_match_always(streams, completed_infohash) == TRUE

\* any(s.infohash.lower() == completed_infohash.lower() for s in streams)
found_match(streams, completed_infohash) ==
    \E i \in DOMAIN streams :
        Lower(streams[i].infohash) = Lower(completed_infohash)

\* streams = await self.riven.scrape_item(...) for a completed download
MonScrapeResp ==
    /\ pc["mon"] = "mon_scrape"
    /\ \E raised \in BOOLEAN, ans \in ReapplyAnswers(mon_item.tmdb_id) :
         IF raised THEN ReapplyDoneWith(Resp("scrape_raised", ""))
         ELSE IF found_match(ans, mon_download.infohash)
                 /\ ~IsPseudoId(mon_item.id)
         THEN MonAtWith("mon_remove", Scraped(ans))
         ELSE MonAtWith("mon_add_only", Scraped(ans))
    /\ UNCHANGED <<scan, env, attempts, removed_ids, refused>>

\* await self.riven.remove_item(item.id): add_item follows either way
MonRemoveResp ==
    /\ pc["mon"] = "mon_remove"
    /\ removed_ids' = removed_ids \cup {mon_item.id}
    /\ \E removed \in BOOLEAN :
         MonAtWith("mon_add",
                   Resp(IF removed THEN "removed" ELSE "not_removed", ""))
    /\ UNCHANGED <<scan, env, attempts, refused>>

\* await self.riven.add_item(...) after the remove: retry_item follows
MonAddResp ==
    /\ pc["mon"] = "mon_add"
    /\ MonAt("mon_retry")
    /\ UNCHANGED <<scan, env, attempts, removed_ids, refused>>

\* await self.riven.retry_item(item.id)
MonRetryResp ==
    /\ pc["mon"] = "mon_retry"
    /\ ReapplyDone
    /\ UNCHANGED <<scan, env, attempts, removed_ids, refused>>

\* await self.riven.add_item(...) for a pseudo-item or without a match
MonAddOnlyResp ==
    /\ pc["mon"] = "mon_add_only"
    /\ MonAt("mon_get_item")
    /\ UNCHANGED <<scan, env, attempts, removed_ids, refused>>

\* await self.riven.get_item_by_ids(...): retry_item only for a found item
MonGetItemResp ==
    /\ pc["mon"] = "mon_get_item"
    /\ \E found \in BOOLEAN :
         IF found THEN MonAtWith("mon_retry_found", Resp("found", ""))
         ELSE ReapplyDoneWith(Resp("none_found", ""))
    /\ UNCHANGED <<scan, env, attempts, removed_ids, refused>>

\* await self.riven.retry_item(found.id)
MonRetryFoundResp ==
    /\ pc["mon"] = "mon_retry_found"
    /\ ReapplyDone
    /\ UNCHANGED <<scan, env, attempts, removed_ids, refused>>

\* await self.rd.delete_torrent(torrent_id) for a failed, dead or stalled
\* download
MonDeleteResp ==
    /\ pc["mon"] = "mon_delete"
    /\ MonAdvance(to_remove \cup {mon_download.torrent_id}, processed_items,
                  state)
    /\ UNCHANGED <<scan, env, attempts, removed_ids, refused>>

(***************************************************************************)
(* The debrid-cleanup loop: _cleanup_rd_torrents and                       *)
(* _enforce_max_active_torrents delete torrents the Debrid lists.  Which   *)
(* ones is decided by the Debrid's answers; the step here is the code      *)
(* after "await self.rd.delete_torrent(torrent.id)" for one of them.       *)
(***************************************************************************)
CleanupDelete ==
    /\ \E tid \in 1..(next_tid - 1) :
         /\ rd_downloads' = DelDownloads(rd_downloads, {tid})
         /\ state' = remove_rd_downloads(state,
                         {tid} \cap TorrentIds(rd_downloads))
    /\ UNCHANGED <<item_trackers, tracker_order, processed_items, tasks, scan,
                   mon, env, history>>

(***************************************************************************)
(* The specification.                                                      *)
(***************************************************************************)
Init ==
    /\ item_trackers = <<>>
    /\ tracker_order = <<>>
    /\ rd_downloads = <<>>
    /\ processed_items = {}
    /\ rr_index = 0
    /\ state = [item_trackers |-> <<>>, rd_downloads |-> <<>>,
                processed_items |-> <<>>]
    /\ skip_riven_retry \in BOOLEAN
    /\ library \in Libraries
    /\ pc = [p \in Tasks |-> "idle"]
    /\ ret = [p \in Tasks |-> ""]
    /\ total_active = [p \in Tasks |-> 0]
    /\ att = [p \in Tasks |-> NoAtt]
    /\ polls = [p \in Tasks |-> 0]
    /\ parent_shows_queued = {}
    /\ cur = <<>>
    /\ mon_q = <<>>
    /\ to_remove = {}
    /\ next_tid = 1
    /\ attempts = <<>>
    /\ removed_ids = {}
    /\ refused = {}
    /\ resp = [p \in Tasks |-> NoResp]
    /\ cpc = "idle"
    /\ all_torrents = <<>>
    /\ todo = <<>>
    /\ tracked_ids = {}
    /\ utc_offset = 0
    /\ deleted = <<>>
    /\ retry_age = <<>>
    /\ attempt_age = <<>>
    /\ scan_item = NoItem
    /\ StoreAtRest(state)
    /\ trip = <<>>
    /\ own_tracker = <<>>
    /\ picks = <<>>
    /\ call = <<>>
    /\ halt = <<>>

Next ==
    \/ MainWake
    \/ ScanResp
    \/ MainItem
    \/ ItemsEnd
    \/ RetryRemoveResp
    \/ RetryAddResp
    \/ RetryAddParentResp
    \/ ScrapeResp
    \/ MonWake
    \/ MonInfoResp
    \/ MonScrapeResp
    \/ MonRemoveResp
    \/ MonAddResp
    \/ MonRetryResp
    \/ MonAddOnlyResp
    \/ MonGetItemResp
    \/ MonRetryFoundResp
    \/ MonDeleteResp
    \/ CleanupDelete
    \/ \E p \in Tasks :
         \/ AddMagnetResp(p)
         \/ PollResp(p)
         \/ PollSleepDone(p)
         \/ SelectResp(p)
         \/ DeleteResp(p)
         \/ FillSleepDone(p)

Spec == Init /\ [][Next]_vars

(***************************************************************************)
(* The debrid-cleanup loop step by step: _rd_cleanup_loop,                 *)
(* _cleanup_rd_torrents and _enforce_max_active_torrents, run against the  *)
(* Debrid's listings and an engine reduced to what the loop reads and      *)
(* writes, rd_downloads and the store, which the other tasks change while  *)
(* the loop is suspended.                                                  *)
(***************************************************************************)
RDTorrent(id, status, progress, added) ==
    [id |-> id, status |-> status, progress |-> progress, added |-> added]

\* RDTorrent.added: missing, not a timestamp, or the UTC time h hours
\* before now, written with the suffix Z as the Debrid does
NoAdded == [kind |-> "none", hours_ago |-> 0]
BadAdded == [kind |-> "bad", hours_ago |-> 0]
AddedAgo(h) == [kind |-> "utc", hours_ago |-> h]
HoursAgo == {0, 1, 2, 5}
AddedSamples == {NoAdded, BadAdded} \cup { AddedAgo(h) : h \in HoursAgo }

\* the hours the host's clock may be ahead of UTC
HostUtcOffsets == {0, 2}

\* what the Debrid may list under torrent id id when the sweep asks: every
\* class of status, with the fields the sweep reads for it
SweptSamples(id) ==
    { RDTorrent(id, st, 0, NoAdded) : st \in {"error", "dead", "downloaded", ""} }
    \cup { RDTorrent(id, "waiting_files_selection", 0, a) : a \in AddedSamples }
    \cup { RDTorrent(id, "downloading", stuck_progress - 1, a) :
              a \in AddedSamples }
    \cup { RDTorrent(id, "downloading", stuck_progress, AddedAgo(5)) }

\* and when the cap enforcement asks
CapSamples(id) ==
    { RDTorrent(id, "downloading", pr, NoAdded) : pr \in {0, 5, 50} }
    \cup { RDTorrent(id, "downloaded", 100, NoAdded) }

\* the sweep is shown no torrent, one, or two
SweptListings ==
    {<<>>} \cup { <<t>> : t \in SweptSamples(1) }
           \cup { <<t, u>> : t \in SweptSamples(1), u \in SweptSamples(2) }

RECURSIVE CapListingsOf(_)
CapListingsOf(n) ==
    IF n = 0 THEN {<<>>}
    ELSE { Append(l, t) : l \in CapListingsOf(n - 1), t \in CapSamples(n) }
CapListings == UNION { CapListingsOf(n) : n \in 0..MaxListed }

\* datetime.fromisoformat(torrent.added.replace('Z', '+00:00')) succeeds
parses(added) == added.kind = "utc"

\* (now - added_time).total_seconds(), in hours: added_time is the
\* timestamp's UTC reading with its tzinfo dropped by replace(tzinfo=None),
\* now = datetime.now() is the host's local reading, offset hours ahead
age_hours(added, offset) == added.hours_ago + offset

\* should_delete of the sweep, for one listed torrent
should_delete(t, tracked, offset) ==
    IF is_failed(t.status) THEN TRUE
    ELSE IF is_stalled(t.status) THEN TRUE
    ELSE IF is_waiting_selection(t.status)
    THEN /\ t.id \notin tracked
         /\ t.added.kind # "none"
         /\ parses(t.added)
         /\ age_hours(t.added, offset) > orphan_hours
    ELSE IF is_active(t.status) /\ t.progress < stuck_progress
    THEN /\ t.id \notin tracked
         /\ t.added.kind # "none"
         /\ parses(t.added)
         /\ age_hours(t.added, offset) > rd_stuck_torrent_hours
    ELSE FALSE

\* the for loop of the sweep runs on to the next torrent it deletes
RECURSIVE SkipKept(_, _, _)
SkipKept(q, tracked, offset) ==
    IF q = <<>> \/ should_delete(Head(q), tracked, offset) THEN q
    ELSE SkipKept(Tail(q), tracked, offset)

\* a faulty variant: the progress alone decides
sort_key_progress_only(t, tracked) == <<0, t.progress>>

\* sort_key of _enforce_max_active_torrents
sort_key(t, tracked) == <<IF t.id \in tracked THEN 1 ELSE 0, t.progress>>

\* Python's order on pairs
KeyLeq(a, b) == a[1] < b[1] \/ (a[1] = b[1] /\ a[2] <= b[2])

\* active_torrents.sort(key=sort_key): stable, ascending
RECURSIVE InsertByKey(_, _, _)
InsertByKey(sorted, t, tracked) ==
    IF sorted = <<>> THEN <<t>>
    ELSE IF KeyLeq(sort_key(Head(sorted), tracked), sort_key(t, tracked))
         THEN <<Head(sorted)>> \o InsertByKey(Tail(sorted), t, tracked)
         ELSE <<t>> \o sorted

RECURSIVE SortByKey(_, _)
SortByKey(ts, tracked) ==
    IF ts = <<>> THEN <<>>
    ELSE InsertByKey(SortByKey(SubSeq(ts, 1, Len(ts) - 1), tracked),
                     ts[Len(ts)], tracked)

\* active_torrents[:excess_count] after the sort; nothing within the limit
excess_torrents(listed, tracked) ==
    LET active_torrents == SelectSeq(listed, LAMBDA t : is_active(t.status))
        excess_count == Len(active_torrents) - max_active_rd_downloads
    IN IF excess_count <= 0 THEN <<>>
       ELSE SubSeq(SortByKey(active_torrents, tracked), 1, excess_count)

\* what the cleanup loop leaves alone
beside_cleanup ==
    <<item_trackers, tracker_order, processed_items, tasks, scan, mon,
      next_tid, skip_riven_retry, library, utc_offset, aside, attempts,
      removed_ids, refused, resp>>

\* the code after "await self.rd.delete_torrent(torrent.id)": the tracker
\* of the id, if there is one now, goes from rd_downloads and the store
Untrack(tid) ==
    IF tid \in TorrentIds(rd_downloads)
    THEN /\ rd_downloads' = DelDownloads(rd_downloads, {tid})
         /\ state' = remove_rd_download(state, tid)
    ELSE UNCHANGED <<rd_downloads, state>>

\* while self._running: await self._cleanup_rd_torrents()
CleanupWake ==
    /\ cpc = "idle"
    /\ cpc' = "count"
    /\ all_torrents' = <<>>
    /\ todo' = <<>>
    /\ tracked_ids' = {}
    /\ deleted' = <<>>
    /\ UNCHANGED <<rd_downloads, state, beside_cleanup>>

\* active_info = await self.rd.get_active_count(): an error ends the run
CountResp ==
    /\ cpc = "count"
    /\ \E raised \in BOOLEAN : cpc' = IF raised THEN "idle" ELSE "list"
    /\ UNCHANGED <<rd_downloads, state, all_torrents, todo, tracked_ids,
                   deleted, beside_cleanup>>

\* all_torrents = await self.rd.get_torrents(limit=100), in the sweep: up
\* to the first delete_torrent, or to get_torrents of the cap enforcement
ListResp ==
    /\ cpc = "list"
    /\ \E raised \in BOOLEAN, ans \in SweptListings :
         IF raised
         THEN /\ cpc' = "idle"
              /\ UNCHANGED <<all_torrents, todo, tracked_ids>>
         ELSE LET tracked == TorrentIds(rd_downloads)
                  q == SkipKept(ans, tracked, utc_offset)
              IN /\ all_torrents' = ans
                 /\ tracked_ids' = tracked
                 /\ todo' = q
                 /\ cpc' = IF q = <<>> THEN "cap_list" ELSE "sweep_delete"
    /\ UNCHANGED <<rd_downloads, state, deleted, beside_cleanup>>

\* await self.rd.delete_torrent(torrent.id), in the sweep
SweepDeleteResp ==
    /\ cpc = "sweep_delete"
    /\ deleted' = Append(deleted, Head(todo).id)
    /\ Untrack(Head(todo).id)
    /\ LET q == SkipKept(Tail(todo), tracked_ids, utc_offset)
       IN /\ todo' = q
          /\ cpc' = IF q = <<>> THEN "cap_list" ELSE "sweep_delete"
    /\ UNCHANGED <<all_torrents, tracked_ids, beside_cleanup>>

\* all_torrents = await self.rd.get_torrents(limit=100), in
\* _enforce_max_active_torrents: the first failure is followed by a sleep
\* and a second call, the second one ends the run; after a failure
\* all_torrents is None
CapListResp ==
    /\ cpc \in {"cap_list", "cap_list_again"}
    /\ \E raised \in BOOLEAN, ans \in CapListings :
         IF raised
         THEN /\ cpc' = IF cpc = "cap_list" THEN "cap_sleep" ELSE "idle"
              /\ all_torrents' = <<>>
              /\ deleted' = <<>>
              /\ UNCHANGED <<todo, tracked_ids>>
         ELSE LET tracked == TorrentIds(rd_downloads)
                  q == excess_torrents(ans, tracked)
              IN /\ all_torrents' = ans
                 /\ deleted' = <<>>
                 /\ tracked_ids' = tracked
                 /\ todo' = q
                 /\ cpc' = IF q = <<>> THEN "idle" ELSE "cap_delete"
    /\ UNCHANGED <<rd_downloads, state, beside_cleanup>>

\* await asyncio.sleep(2) before the second get_torrents
CapSleepDone ==
    /\ cpc = "cap_sleep"
    /\ cpc' = "cap_list_again"
    /\ UNCHANGED <<rd_downloads, state, all_torrents, todo, tracked_ids,
                   deleted, beside_cleanup>>

\* await self.rd.delete_torrent(torrent.id), in the cap enforcement
CapDeleteResp ==
    /\ cpc = "cap_delete"
    /\ deleted' = Append(deleted, Head(todo).id)
    /\ Untrack(Head(todo).id)
    /\ todo' = Tail(todo)
    /\ cpc' = IF Tail(todo) = <<>> THEN "idle" ELSE "cap_delete"
    /\ UNCHANGED <<all_torrents, tracked_ids, beside_cleanup>>

\* the item the other tasks work on while the cleanup loop is watched
cleanup_key == <<"item1">>

\* another task's _try_add_one_stream, from add_magnet to its end, with a
\* download as its outcome
OtherTaskTracks ==
    /\ next_tid <= MaxListed
    /\ item_trackers[cleanup_key].stream_index
           < Len(item_trackers[cleanup_key].streams)
    /\ LET k == cleanup_key
           t == item_trackers[k]
           d == [torrent_id |-> next_tid,
                 infohash |-> t.streams[t.stream_index + 1].infohash,
                 item_id |-> k, stream_index |-> t.stream_index]
           its == advance(item_trackers, k)
       IN /\ rd_downloads' = Append(rd_downloads, d)
          /\ item_trackers' = its
          /\ state' = set_item_tracker(
                 set_rd_download(state, d.torrent_id,
                                 download_to_dict(d, item_trackers)),
                 k, tracker_to_dict(its[k]))
    /\ next_tid' = next_tid + 1
    /\ UNCHANGED <<tracker_order, processed_items, tasks, scan, mon,
                   skip_riven_retry, library, cleanup, aside, history>>

\* the monitor's pass ends and retires one download
OtherTaskUntracks ==
    /\ \E tid \in TorrentIds(rd_downloads) :
         /\ rd_downloads' = DelDownloads(rd_downloads, {tid})
         /\ state' = remove_rd_download(state, tid)
    /\ UNCHANGED <<item_trackers, tracker_order, processed_items, tasks, scan,
                   mon, env, history>>

\* an item with its candidates scraped and no download yet; the host's
\* time zone is any
InitCleanup ==
    LET item == MediaItem(cleanup_key, "movie", "Failed", "11", NoParent, "past")
        t == [ItemTracker(cleanup_key, item) EXCEPT
                 !.manual_scrape_started = TRUE,
                 !.streams = sorted_streams(<<Stream("a1", 1), Stream("a2", 2)>>)]
    IN /\ item_trackers = Put(<<>>, cleanup_key, t)
       /\ tracker_order = <<cleanup_key>>
       /\ rd_downloads = <<>>
       /\ processed_items = {}
       /\ rr_index = 0
       /\ state = [item_trackers |-> Put(<<>>, cleanup_key, tracker_to_dict(t)),
                   rd_downloads |-> <<>>, processed_items |-> <<>>]
       /\ skip_riven_retry = TRUE
       /\ library = MovieItems
       /\ pc = [p \in Tasks |-> "idle"]
       /\ ret = [p \in Tasks |-> ""]
       /\ total_active = [p \in Tasks |-> 0]
       /\ att = [p \in Tasks |-> NoAtt]
       /\ polls = [p \in Tasks |-> 0]
       /\ parent_shows_queued = {}
       /\ cur = <<>>
       /\ mon_q = <<>>
       /\ to_remove = {}
       /\ next_tid = 1
       /\ attempts = <<>>
       /\ removed_ids = {}
       /\ refused = {}
       /\ resp = [p \in Tasks |-> NoResp]
       /\ cpc = "idle"
       /\ all_torrents = <<>>
       /\ todo = <<>>
       /\ tracked_ids = {}
       /\ utc_offset \in HostUtcOffsets
       /\ deleted = <<>>
       /\ retry_age = <<>>
       /\ attempt_age = <<>>
       /\ scan_item = NoItem
       /\ StoreAtRest(state)
       /\ trip = <<>>
       /\ own_tracker = <<>>
       /\ picks = <<>>
       /\ call = <<>>
       /\ halt = <<>>

NextCleanup ==
    \/ CleanupWake
    \/ CountResp
    \/ ListResp
    \/ SweepDeleteResp
    \/ CapListResp
    \/ CapSleepDone
    \/ CapDeleteResp
    \/ OtherTaskTracks
    \/ OtherTaskUntracks

SpecCleanup == InitCleanup /\ [][NextCleanup]_vars

(***************************************************************************)
(* The problem-scan loop against the wall clock: the retry stage of        *)
(* _handle_problem_item and _handle_season_episode reads datetime.now()    *)
(* and compares it with the tracker's last_retry.  Time is counted in      *)
(* units of retry_interval_seconds, per tracker, as the age of its         *)
(* last_retry and of the start of its last library retry; it passes while  *)
(* the task is suspended.                                                  *)
(***************************************************************************)
\* Config.retry_interval_seconds, in units of the clock
retry_interval == 1
\* ages are told apart up to "more than retry_interval"
MaxAge == retry_interval + 1

\* (now - tracker.last_retry).total_seconds() > retry_interval_seconds
elapsed_since(ages, k) == k \in DOMAIN ages /\ ages[k] > retry_interval

\* the key of the tracker _check_problem_items drives for the item
tracker_key(item) ==
    IF item.type \in {"season", "episode"}
    THEN ParentKey(get_parent_show_ids(item)[1], get_parent_show_ids(item)[2])
    ELSE item.id

\* the ages of the trackers that are still there
Kept(ages, its) == [k \in DOMAIN ages \cap DOMAIN its |-> ages[k]]

\* a library retry starts in this step: the task goes from the loop over
\* the items into the first call of a retry
RetryStarts ==
    /\ pc["main"] = "items"
    /\ pc'["main"] \in {"retry_remove", "retry_add_parent"}

\* one round of "for item in items" with the clock read: now =
\* datetime.now() of the retry stage is the start of the retry, and
\* _handle_season_episode sets last_retry = now before its call
ScanItem ==
    /\ pc["main"] = "items"
    /\ \E item \in library :
         /\ HandleItem(item, elapsed_since(retry_age, tracker_key(item)))
         /\ scan_item' = item
    /\ attempt_age' = IF RetryStarts
                      THEN Put(Kept(attempt_age, item_trackers'), cur', 0)
                      ELSE Kept(attempt_age, item_trackers')
    /\ retry_age' = IF pc'["main"] = "retry_add_parent"
                    THEN Put(Kept(retry_age, item_trackers'), cur', 0)
                    ELSE Kept(retry_age, item_trackers')
    /\ UNCHANGED <<mon, next_tid, skip_riven_retry, library, cleanup,
                   store_io, later, attempts, removed_ids, refused>>

\* add_item answers in _handle_problem_item: tracker.last_retry = now, the
\* now read before remove_item was called
ScanRetryAddResp ==
    /\ RetryAddDone
    /\ retry_age' = IF item_trackers'[cur].retry_count
                          # item_trackers[cur].retry_count
                    THEN Put(retry_age, cur, attempt_age[cur])
                    ELSE retry_age
    /\ UNCHANGED <<attempt_age, scan_item, mon, next_tid, skip_riven_retry,
                   library, cleanup, store_io, later, attempts, removed_ids,
                   refused>>

\* one unit of time later
Older(ages) ==
    [k \in DOMAIN ages |-> IF ages[k] < MaxAge THEN ages[k] + 1 ELSE MaxAge]

\* time passes while the task is suspended in a call or in its sleep
Tick ==
    /\ retry_age' = Older(retry_age)
    /\ attempt_age' = Older(attempt_age)
    /\ <<retry_age', attempt_age'>> # <<retry_age, attempt_age>>
    /\ UNCHANGED <<engine, tasks, scan, scan_item, mon, next_tid,
                   skip_riven_retry, library, cleanup, store_io, later,
                   history>>

\* the engine after construction without a state file; the Library retry is
\* configured
InitScan ==
    /\ item_trackers = <<>>
    /\ tracker_order = <<>>
    /\ rd_downloads = <<>>
    /\ processed_items = {}
    /\ rr_index = 0
    /\ state = [item_trackers |-> <<>>, rd_downloads |-> <<>>,
                processed_items |-> <<>>]
    /\ skip_riven_retry = FALSE
    /\ library \in Libraries \cup {AiredMovieItems, RankedMovieItems}
    /\ pc = [p \in Tasks |-> "idle"]
    /\ ret = [p \in Tasks |-> ""]
    /\ total_active = [p \in Tasks |-> 0]
    /\ att = [p \in Tasks |-> NoAtt]
    /\ polls = [p \in Tasks |-> 0]
    /\ parent_shows_queued = {}
    /\ cur = <<>>
    /\ mon_q = <<>>
    /\ to_remove = {}
    /\ next_tid = 1
    /\ attempts = <<>>
    /\ removed_ids = {}
    /\ refused = {}
    /\ resp = [p \in Tasks |-> NoResp]
    /\ cpc = "idle"
    /\ all_torrents = <<>>
    /\ todo = <<>>
    /\ tracked_ids = {}
    /\ utc_offset = 0
    /\ deleted = <<>>
    /\ retry_age = <<>>
    /\ attempt_age = <<>>
    /\ scan_item = NoItem
    /\ StoreAtRest(state)
    /\ trip = <<>>
    /\ own_tracker = <<>>
    /\ picks = <<>>
    /\ call = <<>>
    /\ halt = <<>>

NextScan ==
    \/ MainWake
    \/ ScanResp
    \/ ScanItem
    \/ ItemsEnd
    \/ RetryRemoveResp
    \/ ScanRetryAddResp
    \/ RetryAddParentResp
    \/ ScrapeResp
    \/ Tick
    \/ AddMagnetResp("main")
    \/ PollResp("main")
    \/ PollSleepDone("main")
    \/ SelectResp("main")
    \/ DeleteResp("main")
    \/ FillSleepDone("main")

SpecScan == InitScan /\ [][NextScan]_vars

(***************************************************************************)
(* The State Store on its own (src/persistence.py): the mutators are       *)
(* called with keys and records of the kind the engine passes, save()      *)
(* rewrites the state file in place, and the process may die at any point  *)
(* and be started again.                                                   *)
(***************************************************************************)
\* restarts in one run
MaxBoots == 2

store_key == <<"item1">>

\* the records the engine stores for a tracker and for a download
StoreTrackers ==
    LET item == MediaItem(store_key, "movie", "Failed", "11", NoParent, "past")
    IN { tracker_to_dict([ItemTracker(store_key, item) EXCEPT
                              !.retry_count = n]) : n \in {0, 1} }
StoreDownloads ==
    { [torrent_id |-> 1, infohash |-> h, item_tracker |-> t,
       stream_index |-> 0] : h \in {"a1"}, t \in StoreTrackers }

\* the calls of the mutators that take an item id and of those that take
\* a torrent id; data is read by the setters only
TrackerCalls ==
    { [op |-> o, key |-> store_key, data |-> d] :
         o \in {"set_item_tracker", "remove_item_tracker",
                "add_processed_item"},
         d \in StoreTrackers }
DownloadCalls ==
    { [op |-> o, key |-> 1, data |-> d] :
         o \in {"set_rd_download", "remove_rd_download"},
         d \in StoreDownloads }

\* self._state after the mutator's change
mutated(st, c) ==
    CASE c.op = "set_item_tracker" -> set_item_tracker(st, c.key, c.data)
      [] c.op = "remove_item_tracker" -> remove_item_tracker(st, c.key)
      [] c.op = "set_rd_download" -> set_rd_download(st, c.key, c.data)
      [] c.op = "remove_rd_download" -> remove_rd_download(st, c.key)
      [] c.op = "add_processed_item" -> add_processed_item(st, c.key)

\* whether the mutator calls self.save(): the setters always, the others
\* when they changed something
calls_save(st, c) ==
    CASE c.op = "remove_item_tracker" -> c.key \in DOMAIN st.item_trackers
      [] c.op = "remove_rd_download" -> c.key \in DOMAIN st.rd_downloads
      [] c.op = "add_processed_item" -> c.key \notin Range(st.processed_items)
      [] OTHER -> TRUE

\* what the store's steps leave alone
beside_store ==
    <<item_trackers, tracker_order, rd_downloads, processed_items, tasks,
      scan, mon, next_tid, skip_riven_retry, library, cleanup, wall,
      scan_item, later, history>>

\* mutator call c: self._state is changed, then save() is entered
Called(c) ==
    /\ state' = mutated(state, c)
    /\ spc' = IF calls_save(state, c) THEN "open" ELSE "idle"

\* a mutator is called
StoreCall ==
    /\ spc = "idle"
    /\ \/ \E c \in TrackerCalls : Called(c)
       \/ \E c \in DownloadCalls : Called(c)
    /\ before' = file
    /\ UNCHANGED <<file, boots, beside_store>>

\* open(self.state_file, "w") in save(): the file is cut to nothing; an
\* OSError is caught, save() returns False and the mutator returns
SaveOpen ==
    /\ spc = "open"
    /\ \E raised \in BOOLEAN :
         IF raised THEN spc' = "idle" /\ file' = file
         ELSE spc' = "write" /\ file' = <<>>
    /\ UNCHANGED <<state, before, boots, beside_store>>

\* json.dump writes on; after the last piece the file is closed and the
\* mutator returns; an OSError ends save() as above
SaveWrite ==
    /\ spc = "write"
    /\ \E raised \in BOOLEAN :
         IF raised THEN spc' = "idle" /\ file' = file
         ELSE /\ file' = Append(file, dumps(state)[Len(file) + 1])
              /\ spc' = IF Len(file) + 1 = Len(dumps(state)) THEN "idle"
                        ELSE "write"
    /\ UNCHANGED <<state, before, boots, beside_store>>

\* the process dies and is started again: StateManager() and load()
CrashAndLoad ==
    /\ boots < MaxBoots
    /\ boots' = boots + 1
    /\ state' = load(file)
    /\ spc' = "idle"
    /\ UNCHANGED <<file, before, beside_store>>

InitStore ==
    /\ item_trackers = <<>>
    /\ tracker_order = <<>>
    /\ rd_downloads = <<>>
    /\ processed_items = {}
    /\ rr_index = 0
    /\ state = EmptyState
    /\ skip_riven_retry = FALSE
    /\ library = MovieItems
    /\ pc = [p \in Tasks |-> "idle"]
    /\ ret = [p \in Tasks |-> ""]
    /\ total_active = [p \in Tasks |-> 0]
    /\ att = [p \in Tasks |-> NoAtt]
    /\ polls = [p \in Tasks |-> 0]
    /\ parent_shows_queued = {}
    /\ cur = <<>>
    /\ mon_q = <<>>
    /\ to_remove = {}
    /\ next_tid = 1
    /\ attempts = <<>>
    /\ removed_ids = {}
    /\ refused = {}
    /\ resp = [p \in Tasks |-> NoResp]
    /\ cpc = "idle"
    /\ all_torrents = <<>>
    /\ todo = <<>>
    /\ tracked_ids = {}
    /\ utc_offset = 0
    /\ deleted = <<>>
    /\ retry_age = <<>>
    /\ attempt_age = <<>>
    /\ scan_item = NoItem
    /\ StoreAtRest(state)
    /\ trip = <<>>
    /\ own_tracker = <<>>
    /\ picks = <<>>
    /\ call = <<>>
    /\ halt = <<>>

NextStore ==
    \/ StoreCall
    \/ SaveOpen
    \/ SaveWrite
    \/ CrashAndLoad

SpecStore == InitStore /\ [][NextStore]_vars

(***************************************************************************)
(* Trackers through to_dict and from_dict.  A JSON object is a record of   *)
(* its keys, each <<>> where the key is missing and <<v>> where it is      *)
(* there; a value that may be None or an object is <<>> for None and       *)
(* <<object>> else.  A scalar is a string: "i12" the int 12, "s12" the     *)
(* str "12", "s" the empty str, NoneStr for None, "t1" a datetime and      *)
(* "iso:t1" its isoformat.                                                 *)
(***************************************************************************)
\* str(v)
str(v) ==
    CASE v = "i0" -> "s0"
      [] v = "i2" -> "s2"
      [] v = "i7" -> "s7"
      [] v = "i12" -> "s12"
      [] v = NoneStr -> "sNone"
      [] OTHER -> v

\* bool(v) of a scalar
truthy(v) == v \notin {NoneStr, "i0", "s"}

\* data.get(k, default)
get(data, k, default) == IF data[k] = <<>> THEN default ELSE data[k][1]

\* datetime.isoformat and datetime.fromisoformat, "ValueError" when the
\* text is no ISO time
isoformat(t) == IF t = "t1" THEN "iso:t1" ELSE "iso:t2"
fromisoformat(text) ==
    CASE text = "iso:t1" -> "t1" [] text = "iso:t2" -> "t2"
      [] OTHER -> "ValueError"

\* str(data.get(k)) if data.get(k) else None
str_or_none(data, k) ==
    IF truthy(get(data, k, NoneStr)) THEN str(get(data, k, NoneStr))
    ELSE NoneStr

\* ParentIds.from_dict; data is None (<<>>) or a dict
ParentIds_from_dict(data) ==
    IF data = <<>> \/ \A k \in DOMAIN data[1] : data[1][k] = <<>>
    THEN <<>>
    ELSE << [imdb_id |-> get(data[1], "imdb_id", NoneStr),
             tmdb_id |-> str_or_none(data[1], "tmdb_id"),
             tvdb_id |-> str_or_none(data[1], "tvdb_id")] >>

\* MediaItem.from_dict
MediaItem_from_dict(data) ==
    [id |-> str(get(data, "id", NoneStr)),
     title |-> get(data, "title", "s"),
     state |-> get(data, "state", "s"),
     type |-> get(data, "type", "s"),
     imdb_id |-> get(data, "imdb_id", NoneStr),
     tmdb_id |-> str_or_none(data, "tmdb_id"),
     tvdb_id |-> str_or_none(data, "tvdb_id"),
     scraped_times |-> get(data, "scraped_times", "i0"),
     parent_title |-> get(data, "parent_title", NoneStr),
     season_number |-> get(data, "season_number", NoneStr),
     episode_number |-> get(data, "episode_number", NoneStr),
     parent_ids |-> ParentIds_from_dict(get(data, "parent_ids", <<>>)),
     aired_at |-> get(data, "aired_at", NoneStr)]

\* Stream.from_dict
Stream_from_dict(data) ==
    [infohash |-> get(data, "infohash", "s"),
     raw_title |-> get(data, "raw_title", "s"),
     rank |-> get(data, "rank", "i0"),
     is_cached |-> get(data, "is_cached", FALSE)]

\* a dict literal with every key there
AllKeys(rec) == [k \in DOMAIN rec |-> <<rec[k]>>]

\* ItemTracker.to_dict
ItemTracker_to_dict(t) ==
    AllKeys(
      [item_id |-> t.item_id,
       item |-> AllKeys(
         [id |-> t.item.id, title |-> t.item.title, state |-> t.item.state,
          type |-> t.item.type, imdb_id |-> t.item.imdb_id,
          tmdb_id |-> t.item.tmdb_id, tvdb_id |-> t.item.tvdb_id,
          scraped_times |-> t.item.scraped_times,
          parent_title |-> t.item.parent_title,
          season_number |-> t.item.season_number,
          episode_number |-> t.item.episode_number,
          parent_ids |-> IF t.item.parent_ids # <<>>
                         THEN << AllKeys(t.item.parent_ids[1]) >>
                         ELSE <<>>,
          aired_at |-> t.item.aired_at]),
       retry_count |-> t.retry_count,
       last_retry |-> IF t.last_retry # NoneStr THEN isoformat(t.last_retry)
                      ELSE NoneStr,
       manual_scrape_started |-> t.manual_scrape_started,
       streams |-> [i \in DOMAIN t.streams |->
                      AllKeys([infohash |-> t.streams[i].infohash,
                               raw_title |-> t.streams[i].raw_title,
                               rank |-> t.streams[i].rank,
                               is_cached |-> t.streams[i].is_cached])],
       stream_index |-> t.stream_index])

\* a faulty variant: the index is not read back
ItemTracker_from_dict_no_index(data) ==
    [item_id |-> data.item_id[1],
     item |-> MediaItem_from_dict(data.item[1]),
     retry_count |-> get(data, "retry_count", 0),
     last_retry |->
       IF truthy(get(data, "last_retry", NoneStr))
            /\ fromisoformat(get(data, "last_retry", NoneStr)) # "ValueError"
       THEN fromisoformat(get(data, "last_retry", NoneStr))
       ELSE NoneStr,
     manual_scrape_started |-> get(data, "manual_scrape_started", FALSE),
     streams |-> [i \in DOMAIN get(data, "streams", <<>>) |->
                    Stream_from_dict(get(data, "streams", <<>>)[i])],
     stream_index |-> 0]

\* ItemTracker.from_dict
ItemTracker_from_dict(data) ==
    [item_id |-> data.item_id[1],
     item |-> MediaItem_from_dict(data.item[1]),
     retry_count |-> get(data, "retry_count", 0),
     last_retry |->
       IF truthy(get(data, "last_retry", NoneStr))
            /\ fromisoformat(get(data, "last_retry", NoneStr)) # "ValueError"
       THEN fromisoformat(get(data, "last_retry", NoneStr))
       ELSE NoneStr,
     manual_scrape_started |-> get(data, "manual_scrape_started", FALSE),
     streams |-> [i \in DOMAIN get(data, "streams", <<>>) |->
                    Stream_from_dict(get(data, "streams", <<>>)[i])],
     stream_index |-> get(data, "stream_index", 0)]

\* the Library's JSON for one item, as get_problem_items receives it
RawParents ==
    { <<>>, << <<>> >>,
      << <<[imdb_id |-> <<>>, tmdb_id |-> <<>>, tvdb_id |-> <<>>]>> >>,
      << <<[imdb_id |-> <<>>, tmdb_id |-> <<"i2">>, tvdb_id |-> <<>>]>> >>,
      << <<[imdb_id |-> <<"stt1">>, tmdb_id |-> <<"i0">>,
            tvdb_id |-> <<"s3">>]>> >>,
      << <<[imdb_id |-> <<"stt1">>, tmdb_id |-> <<>>, tvdb_id |-> <<>>]>> >> }
RawItems ==
    { [id |-> <<id>>, title |-> title, state |-> <<"sFailed">>,
       type |-> <<type>>,
       imdb_id |-> imdb, tmdb_id |-> tmdb, tvdb_id |-> <<NoneStr>>,
       scraped_times |-> <<"i2">>, parent_title |-> <<NoneStr>>,
       season_number |-> <<>>, episode_number |-> <<>>,
       parent_ids |-> parent, aired_at |-> <<"s2020-01-01">>] :
        id \in {"i7", "s7"}, type \in {"smovie", "sepisode"},
        title \in {<<>>, <<"sTitle">>},
        imdb \in {<<>>, <<"s">>},
        tmdb \in {<<>>, <<"i0">>, <<"i12">>, <<"s12">>, <<"s">>},
        parent \in RawParents }

\* the Library's JSON for the streams of one scrape
RawStreams ==
    LET full == [infohash |-> <<"sa1">>, raw_title |-> <<"sT">>,
                 rank |-> <<"i2">>, is_cached |-> <<TRUE>>]
        bare == [infohash |-> <<"sb1">>, raw_title |-> <<>>,
                 rank |-> <<>>, is_cached |-> <<>>]
    IN { <<full>>, <<full, bare>> }

\* ItemTracker(item_id=item.id, item=item)
new_tracker(item) ==
    [item_id |-> item.id, item |-> item, retry_count |-> 0,
     last_retry |-> NoneStr, manual_scrape_started |-> FALSE,
     streams |-> <<>>, stream_index |-> 0]

\* parent_key = f"tmdb:{parent_tmdb_id}|tvdb:{parent_tvdb_id}"
parent_key_str(tmdb, tvdb) ==
    CASE tmdb = "s2" /\ tvdb = NoneStr -> "stmdb:2|tvdb:None"
      [] tmdb = NoneStr /\ tvdb = "s3" -> "stmdb:None|tvdb:3"
      [] OTHER -> "stmdb:2|tvdb:3"

\* the pseudo-item _handle_season_episode builds for the parent show
pseudo_item(item) ==
    LET p == item.parent_ids[1]
    IN [id |-> parent_key_str(p.tmdb_id, p.tvdb_id),
        title |-> IF truthy(item.parent_title) THEN item.parent_title
                  ELSE item.title,
        state |-> item.state, type |-> "sshow", imdb_id |-> p.imdb_id,
        tmdb_id |-> p.tmdb_id, tvdb_id |-> p.tvdb_id,
        scraped_times |-> "i0", parent_title |-> NoneStr,
        season_number |-> NoneStr, episode_number |-> NoneStr,
        parent_ids |-> <<>>, aired_at |-> item.aired_at]

\* the trackers the scan makes for a listed item: the item's own; for an
\* episode its parent show's when the parent ids are known and the title
\* has a first word, else none
scan_tracker(item) ==
    IF item.type # "sepisode"
    THEN {new_tracker(item)}
    ELSE IF /\ item.parent_ids # <<>>
            /\ truthy(item.parent_ids[1].tmdb_id)
                 \/ truthy(item.parent_ids[1].tvdb_id)
            /\ truthy(item.title)
         THEN {new_tracker(pseudo_item(item))}
         ELSE {}

beside_trip ==
    <<engine, tasks, scan, mon, next_tid, skip_riven_retry, library, cleanup,
      wall, scan_item, store_io, own_tracker, picks, call, halt,
      history>>

\* tracker.retry_count += 1; tracker.last_retry = now; set_item_tracker
TripRetry ==
    /\ trip.tracker.retry_count < max_riven_retries
    /\ ~trip.tracker.manual_scrape_started
    /\ \E now \in {"t1", "t2"} :
         LET t == [trip.tracker EXCEPT !.retry_count = @ + 1,
                                       !.last_retry = now]
         IN trip' = [trip EXCEPT !.tracker = t,
                                 !.data = <<ItemTracker_to_dict(t)>>]
    /\ UNCHANGED beside_trip

\* _start_manual_scrape with streams found
TripScrape ==
    /\ ~trip.tracker.manual_scrape_started
    /\ \E raw \in RawStreams :
         LET t == [trip.tracker EXCEPT
                     !.manual_scrape_started = TRUE,
                     !.streams = [i \in DOMAIN raw |-> Stream_from_dict(raw[i])],
                     !.stream_index = 0]
         IN trip' = [trip EXCEPT !.tracker = t,
                                 !.data = <<ItemTracker_to_dict(t)>>]
    /\ UNCHANGED beside_trip

\* the end of _try_add_one_stream: stream_index += 1; set_item_tracker
TripAdvance ==
    /\ trip.tracker.stream_index < Len(trip.tracker.streams)
    /\ LET t == [trip.tracker EXCEPT !.stream_index = @ + 1]
       IN trip' = [trip EXCEPT !.tracker = t,
                               !.data = <<ItemTracker_to_dict(t)>>]
    /\ UNCHANGED beside_trip

\* a new process: _load_state restores the tracker from the stored dict
TripRestart ==
    /\ trip.data # <<>>
    /\ trip' = [trip EXCEPT !.tracker = ItemTracker_from_dict(trip.data[1]),
                            !.restored = TRUE]
    /\ UNCHANGED beside_trip

InitTrip ==
    /\ item_trackers = <<>>
    /\ tracker_order = <<>>
    /\ rd_downloads = <<>>
    /\ processed_items = {}
    /\ rr_index = 0
    /\ state = EmptyState
    /\ skip_riven_retry = FALSE
    /\ library = MovieItems
    /\ pc = [p \in Tasks |-> "idle"]
    /\ ret = [p \in Tasks |-> ""]
    /\ total_active = [p \in Tasks |-> 0]
    /\ att = [p \in Tasks |-> NoAtt]
    /\ polls = [p \in Tasks |-> 0]
    /\ parent_shows_queued = {}
    /\ cur = <<>>
    /\ mon_q = <<>>
    /\ to_remove = {}
    /\ next_tid = 1
    /\ attempts = <<>>
    /\ removed_ids = {}
    /\ refused = {}
    /\ resp = [p \in Tasks |-> NoResp]
    /\ cpc = "idle"
    /\ all_torrents = <<>>
    /\ todo = <<>>
    /\ tracked_ids = {}
    /\ utc_offset = 0
    /\ deleted = <<>>
    /\ retry_age = <<>>
    /\ attempt_age = <<>>
    /\ scan_item = NoItem
    /\ StoreAtRest(state)
    /\ own_tracker = <<>>
    /\ picks = <<>>
    /\ call = <<>>
    /\ halt = <<>>
    /\ \E raw \in RawItems :
         \E t \in scan_tracker(MediaItem_from_dict(raw)) :
           trip = [tracker |-> t, data |-> <<>>, restored |-> FALSE]

NextTrip ==
    \/ TripRetry
    \/ TripScrape
    \/ TripAdvance
    \/ TripRestart

SpecTrip == InitTrip /\ [][NextTrip]_vars

(***************************************************************************)
(* Restart: a new process restores the engine's tables from the stored     *)
(* document.  The document is the one the last process left, every save    *)
(* of it complete.  Between restarts the other tasks add downloads, fail   *)
(* attempts and retire downloads.                                          *)
(***************************************************************************)
\* ItemTracker.from_dict on a stored tracker
tracker_from_dict(data) ==
    [item_id |-> data.item_id, item |-> data.item,
     retry_count |-> data.retry_count, last_retry |-> data.last_retry,
     manual_scrape_started |-> data.manual_scrape_started,
     streams |-> data.streams, stream_index |-> data.stream_index]

\* the keys of the stored rd_downloads in the order they were stored: the
\* Debrid's ids grow
stored_tids(st) ==
    SelectSeq([i \in 1..MaxListed + 1 |-> i],
              LAMBDA i : i \in DOMAIN st.rd_downloads)

\* RDDownloadTracker.from_dict for every stored download: the download
\* without its item tracker
restored_downloads(st) ==
    [i \in DOMAIN stored_tids(st) |->
       LET data == st.rd_downloads[stored_tids(st)[i]]
       IN [torrent_id |-> data.torrent_id, infohash |-> data.infohash,
           item_id |-> data.item_tracker.item_id,
           stream_index |-> data.stream_index]]

\* another task's _try_add_one_stream from its start to its end, without
\* a download
OtherTaskFails ==
    /\ item_trackers[cleanup_key].stream_index
           < Len(item_trackers[cleanup_key].streams)
    /\ LET its == advance(item_trackers, cleanup_key)
       IN /\ item_trackers' = its
          /\ state' = set_item_tracker(state, cleanup_key,
                                        tracker_to_dict(its[cleanup_key]))
    /\ UNCHANGED <<tracker_order, rd_downloads, processed_items, tasks, scan,
                   mon, env, history>>

\* TRCMonitor.__init__ of a new process: _load_state
Restart ==
    /\ boots < MaxBoots
    /\ boots' = boots + 1
    /\ item_trackers' = [k \in DOMAIN state.item_trackers |->
                           tracker_from_dict(state.item_trackers[k])]
    /\ tracker_order' = SelectSeq(tracker_order,
                                  LAMBDA k : k \in DOMAIN state.item_trackers)
    /\ rd_downloads' = restored_downloads(state)
    /\ own_tracker' = [tid \in DOMAIN state.rd_downloads |->
                         tracker_from_dict(state.rd_downloads[tid].item_tracker)]
    /\ processed_items' = Range(state.processed_items)
    /\ rr_index' = 0
    /\ UNCHANGED <<state, pc, ret, total_active, att, polls, scan, mon,
                   next_tid, skip_riven_retry, library, cleanup, wall,
                   scan_item, file, spc, before, trip, picks, call, halt,
                   history>>

InitRestart ==
    /\ \E streams \in {<<Stream("a1", 1)>>,
                       <<Stream("a1", 1), Stream("a2", 2)>>,
                       <<Stream("a1", 1), Stream("a2", 2), Stream("a3", 3)>>},
          retries \in 0..max_riven_retries :
         LET item == MediaItem(cleanup_key, "movie", "Failed", "11", NoParent,
                               "past")
             t == [ItemTracker(cleanup_key, item) EXCEPT
                      !.retry_count = retries,
                      !.manual_scrape_started = TRUE,
                      !.streams = streams]
         IN /\ item_trackers = Put(<<>>, cleanup_key, t)
            /\ state = [item_trackers |->
                          Put(<<>>, cleanup_key, tracker_to_dict(t)),
                        rd_downloads |-> <<>>, processed_items |-> <<>>]
    /\ tracker_order = <<cleanup_key>>
    /\ rd_downloads = <<>>
    /\ processed_items = {}
    /\ rr_index = 0
    /\ skip_riven_retry = TRUE
    /\ library = MovieItems
    /\ pc = [p \in Tasks |-> "idle"]
    /\ ret = [p \in Tasks |-> ""]
    /\ total_active = [p \in Tasks |-> 0]
    /\ att = [p \in Tasks |-> NoAtt]
    /\ polls = [p \in Tasks |-> 0]
    /\ parent_shows_queued = {}
    /\ cur = <<>>
    /\ mon_q = <<>>
    /\ to_remove = {}
    /\ next_tid = 1
    /\ attempts = <<>>
    /\ removed_ids = {}
    /\ refused = {}
    /\ resp = [p \in Tasks |-> NoResp]
    /\ cpc = "idle"
    /\ all_torrents = <<>>
    /\ todo = <<>>
    /\ tracked_ids = {}
    /\ utc_offset = 0
    /\ deleted = <<>>
    /\ retry_age = <<>>
    /\ attempt_age = <<>>
    /\ scan_item = NoItem
    /\ StoreAtRest(state)
    /\ trip = <<>>
    /\ own_tracker = <<>>
    /\ picks = <<>>
    /\ call = <<>>
    /\ halt = <<>>

NextRestart ==
    \/ OtherTaskTracks
    \/ OtherTaskFails
    \/ OtherTaskUntracks
    \/ Restart

SpecRestart == InitRestart /\ [][NextRestart]_vars

(***************************************************************************)
(* Slot filling on its own: three trackers with candidates left, no        *)
(* download, and the monitor task, which finds nothing to check and fills  *)
(* the slots.  The first tracker was scraped while no download was active  *)
(* and has had its first candidate tried; the others were scraped while    *)
(* that candidate's download held the only slot, so the cursor is 0.       *)
(***************************************************************************)
fill_keys == <<<<"item1">>, <<"item2">>, <<"item3">>>>

\* the candidates of tracker number n, already ranked
fill_streams(n, len) ==
    SubSeq(CASE n = 1 -> <<Stream("a1", 3), Stream("a2", 2), Stream("a3", 1)>>
             [] n = 2 -> <<Stream("b1", 3), Stream("b2", 2), Stream("b3", 1)>>
             [] OTHER -> <<Stream("c1", 3), Stream("c2", 2), Stream("c3", 1)>>,
           1, len)

\* add_magnet answers for the tracker _fill_rd_slots picked last
FillAddMagnetResp ==
    /\ AddMagnetDone("mon")
    /\ picks' = Append(picks,
                  [key |-> att["mon"].key,
                   pending |-> Range(pending_trackers(item_trackers,
                                                      tracker_order))])
    /\ UNCHANGED <<wall, scan_item, store_io, trip, own_tracker, call, halt>>

InitFill ==
    /\ \E lens \in [1..3 -> 1..2] :
         /\ item_trackers =
              [k \in Range(fill_keys) |->
                 LET n == CHOOSE i \in 1..3 : fill_keys[i] = k
                     item == MediaItem(k, "movie", "Failed", "11", NoParent,
                                       "past")
                 IN [ItemTracker(k, item) EXCEPT
                        !.manual_scrape_started = TRUE,
                        !.streams = fill_streams(n, IF n = 1 THEN lens[n] + 1
                                                     ELSE lens[n]),
                        !.stream_index = IF n = 1 THEN 1 ELSE 0]]
         /\ state = [item_trackers |->
                       [k \in Range(fill_keys) |->
                          tracker_to_dict(item_trackers[k])],
                     rd_downloads |-> <<>>, processed_items |-> <<>>]
    /\ tracker_order = fill_keys
    /\ rd_downloads = <<>>
    /\ processed_items = {}
    /\ rr_index = 0
    /\ skip_riven_retry = TRUE
    /\ library = MovieItems
    /\ pc = [p \in Tasks |-> "idle"]
    /\ ret = [p \in Tasks |-> ""]
    /\ total_active = [p \in Tasks |-> 0]
    /\ att = [p \in Tasks |-> NoAtt]
    /\ polls = [p \in Tasks |-> 0]
    /\ parent_shows_queued = {}
    /\ cur = <<>>
    /\ mon_q = <<>>
    /\ to_remove = {}
    /\ next_tid = 2
    /\ attempts = <<>>
    /\ removed_ids = {}
    /\ refused = {}
    /\ resp = [p \in Tasks |-> NoResp]
    /\ cpc = "idle"
    /\ all_torrents = <<>>
    /\ todo = <<>>
    /\ tracked_ids = {}
    /\ utc_offset = 0
    /\ deleted = <<>>
    /\ retry_age = <<>>
    /\ attempt_age = <<>>
    /\ scan_item = NoItem
    /\ StoreAtRest(state)
    /\ trip = <<>>
    /\ own_tracker = <<>>
    /\ picks = <<>>
    /\ call = <<>>
    /\ halt = <<>>

\* _rd_monitor_loop with no download to check
FillWake == rd_downloads = <<>> /\ MonWake

NextFill ==
    \/ FillWake
    \/ FillAddMagnetResp
    \/ PollResp("mon")
    \/ PollSleepDone("mon")
    \/ SelectResp("mon")
    \/ DeleteResp("mon")
    \/ FillSleepDone("mon")

SpecFill == InitFill /\ [][NextFill]_vars

(***************************************************************************)
(* Properties.                                                             *)
(***************************************************************************)
\* add_magnet calls issued for position i of tracker k: those answered and
\* those a task is suspended in
Submitted(k, i) ==
    Count(attempts, <<k, i>>)
    + Cardinality({ p \in Tasks : /\ pc[p] = "add_magnet"
                                  /\ att[p].key = k
                                  /\ att[p].idx = i })

\* the download trackers of item k
DownloadsOf(rds, k) == { d \in Range(rds) : d.item_id = k }

\* C1: in every reachable state, whatever the interleaving of the loops,
\* rd_downloads holds at most max_active_rd_downloads entries.
C1_AtMostMaxActive == Len(rd_downloads) <= max_active_rd_downloads

\* C2: every position of every tracker's streams list is submitted to the
\* Debrid at most once, and no position the index has passed was left
\* without a submission.
C2_EachPositionOnce ==
    \A k \in DOMAIN item_trackers :
        \A i \in 0..(Len(item_trackers[k].streams) - 1) :
            /\ Submitted(k, i) <= 1
            /\ i < item_trackers[k].stream_index => Submitted(k, i) >= 1

\* C3: for every item tracker, 0 <= stream_index <= len(streams).
C3_IndexInRange ==
    \A k \in DOMAIN item_trackers :
        /\ 0 <= item_trackers[k].stream_index
        /\ item_trackers[k].stream_index <= Len(item_trackers[k].streams)

\* C4: no step creates or changes the item tracker of a key that is in
\* processed_items, nor creates a download tracker for it.
C4_ProcessedUntouched ==
    [][\A k \in processed_items :
         /\ (k \in DOMAIN item_trackers) = (k \in DOMAIN item_trackers')
         /\ k \in DOMAIN item_trackers =>
                item_trackers'[k] = item_trackers[k]
         /\ DownloadsOf(rd_downloads', k) \subseteq DownloadsOf(rd_downloads, k)
      ]_vars

\* C5: no step removes a key from processed_items, neither from the
\* in-memory set nor from the persisted list.
C5_ProcessedOnlyGrows ==
    [][/\ processed_items \subseteq processed_items'
       /\ Range(state.processed_items) \subseteq Range(state'.processed_items)
      ]_vars

\* a key has been recorded, in memory and in the store, and the monitor has
\* since completed another download of the same item and recorded it again
C5_Witness ==
    /\ pc["mon"] = "mon_retry"
    /\ mon_download.item_id \in processed_items
    /\ mon_download.item_id \in Range(state.processed_items)

\* C6: remove_item is never called with an id of the form
\* tmdb:<t>|tvdb:<v>.
C6_NoPseudoRemove ==
    \A id \in removed_ids : Len(id) >= 1 => id[1] \notin {"tmdb:", "tvdb:"}

\* a completed download of a pseudo-tracker is being reapplied: the monitor
\* is past the scrape and has issued add_item
C6_Witness ==
    /\ pc["mon"] = "mon_add_only"
    /\ mon_download.item_id = ParentKey("2", NoneStr)

\* C7: once both loops are at rest, a tracker whose candidates are used up
\* and that has no download left is recorded in processed_items.
C7_ExhaustedIsProcessed ==
    \A k \in DOMAIN item_trackers :
        ( /\ pc["main"] = "idle"
          /\ pc["mon"] = "idle"
          /\ item_trackers[k].manual_scrape_started
          /\ item_trackers[k].streams # <<>>
          /\ item_trackers[k].stream_index >= Len(item_trackers[k].streams)
          /\ DownloadsOf(rd_downloads, k) = {} )
        => k \in processed_items

\* C8: when the poll after add_magnet reports the torrent as downloaded,
\* the engine does not go on to select_files: that step creates the one
\* download tracker of the torrent.
C8_CachedNoSelect ==
    [][\A p \in Tasks :
         (pc[p] = "poll" /\ resp'[p].ans = "downloaded")
         => /\ pc'[p] # "select"
            /\ Len(rd_downloads') = Len(rd_downloads) + 1
            /\ att[p].tid \in TorrentIds(rd_downloads')
      ]_vars

\* C9: the step in which add_magnet raises ContentInfringementError does
\* not go on to delete_torrent, leaves rd_downloads as it is and moves the
\* tracker's stream_index by exactly one; and no add_magnet call is issued
\* for an infohash that has been refused.
C9_InfringementSkipped ==
    [][\A p \in Tasks :
         /\ (pc[p] = "add_magnet" /\ resp'[p].ans = "infringement")
            => /\ pc'[p] # "delete"
               /\ rd_downloads' = rd_downloads
               /\ item_trackers'[att[p].key].stream_index =
                      item_trackers[att[p].key].stream_index + 1
         /\ (pc'[p] = "add_magnet" /\ att'[p] # att[p])
            => item_trackers'[att'[p].key].streams[att'[p].idx + 1].infohash
                   \notin refused'
      ]_vars

\* add_magnet has just refused a candidate as infringing
C9_Witness ==
    \E p \in Tasks : resp[p].ans = "infringement" /\ refused # {}

\* C10: when the poll reports the new torrent as magnet_error, error, virus
\* or dead, or when select_files fails, the engine goes on to
\* delete_torrent for that torrent id without creating a download tracker,
\* and when delete_torrent returns the stream_index moves by one and there
\* is still no download tracker for the id.
C10_FailedIsDeleted ==
    [][\A p \in Tasks :
         /\ ( \/ /\ pc[p] = "poll"
                 /\ resp'[p].ans \in {"magnet_error", "error", "virus", "dead"}
              \/ /\ pc[p] = "select"
                 /\ resp'[p].ans = "not_selected" )
            => /\ pc'[p] = "delete"
               /\ att'[p].tid = att[p].tid
               /\ att[p].tid \notin TorrentIds(rd_downloads')
         /\ (pc[p] = "delete" /\ resp'[p].ans = "deleted")
            => /\ item_trackers'[att[p].key].stream_index =
                      item_trackers[att[p].key].stream_index + 1
               /\ att[p].tid \notin TorrentIds(rd_downloads')
      ]_vars

\* delete_torrent has been called for a torrent the poll reported as
\* failed or dead, or whose files could not be selected
C10_Witness ==
    \E p \in Tasks :
        /\ pc[p] = "delete"
        /\ resp[p].ans \in {"magnet_error", "error", "virus", "dead",
                            "not_selected"}

\* the download trackers of rds keyed by torrent id tid
KeyedBy(rds, tid) == { i \in DOMAIN rds : rds[i].torrent_id = tid }

\* C11: when the first poll after add_magnet reports
\* waiting_files_selection, the engine goes on to select_files for that
\* torrent id without another poll; when select_files succeeds, that step
\* creates exactly one download tracker keyed by the id, writes it and the
\* item tracker to the store, and moves stream_index by one.
C11_WaitingThenSelect ==
    [][\A p \in Tasks :
         /\ ( /\ pc[p] = "poll"
              /\ polls[p] = 0
              /\ resp'[p].ans = "waiting_files_selection" )
            => /\ pc'[p] = "select"
               /\ att'[p].tid = att[p].tid
               /\ rd_downloads' = rd_downloads
         /\ ( /\ pc[p] = "select"
              /\ polls[p] = 0
              /\ resp[p].ans = "waiting_files_selection"
              /\ resp'[p].ans = "added" )
            => LET k == att[p].key
               IN /\ KeyedBy(rd_downloads, att[p].tid) = {}
                  /\ Cardinality(KeyedBy(rd_downloads', att[p].tid)) = 1
                  /\ Len(rd_downloads') = Len(rd_downloads) + 1
                  /\ att[p].tid \in DOMAIN state'.rd_downloads
                  /\ state'.rd_downloads[att[p].tid].torrent_id = att[p].tid
                  /\ item_trackers'[k].stream_index =
                         item_trackers[k].stream_index + 1
                  /\ k \in DOMAIN state'.item_trackers
                  /\ state'.item_trackers[k] =
                         tracker_to_dict(item_trackers'[k])
      ]_vars

\* select_files has been called for a torrent whose first poll reported
\* waiting_files_selection
C11_Witness ==
    \E p \in Tasks :
        /\ pc[p] = "select"
        /\ polls[p] = 0
        /\ resp[p].ans = "waiting_files_selection"
        /\ att[p].tid \notin TorrentIds(rd_downloads)

\* task p is inside _try_add_one_stream, between its first await and its end
InAttempt(p) == pc[p] \in {"add_magnet", "poll", "poll_sleep", "select", "delete"}

\* this step is the end of the attempt p is in: p leaves the call for
\* _fill_rd_slots, which sleeps, returns or starts another attempt
AttemptEnds(p) ==
    /\ InAttempt(p)
    /\ \/ pc'[p] \notin {"add_magnet", "poll", "poll_sleep", "select", "delete"}
       \/ att'[p].key # att[p].key
       \/ att'[p].idx # att[p].idx

\* C12: every attempt to add a candidate ends in a step that moves the
\* tracker's stream_index by exactly one and writes the tracker to the
\* store, whatever the answer that ended it (a download, a refusal, an
\* add_magnet error, no torrent id, a delete after a failed or timed-out
\* conversion or a failed select_files); the steps of the attempt before
\* its end leave the trackers as they are.
C12_AttemptAdvancesOnce ==
    [][\A p \in Tasks :
         /\ AttemptEnds(p)
            => LET k == att[p].key
               IN /\ att[p].idx < Len(item_trackers[k].streams)
                  /\ item_trackers'[k].stream_index =
                         item_trackers[k].stream_index + 1
                  /\ k \in DOMAIN state'.item_trackers
                  /\ state'.item_trackers[k] =
                         tracker_to_dict(item_trackers'[k])
                  /\ resp'[p].ans \in {"added", "infringement", "error",
                                       "no_id", "deleted"}
         /\ (InAttempt(p) /\ pc'[p] # pc[p] /\ ~AttemptEnds(p))
            => item_trackers' = item_trackers
      ]_vars

\* an attempt has ended in delete_torrent, the index has moved on and the
\* store holds the tracker as it is now
C12_Witness ==
    \E p \in Tasks, k \in DOMAIN item_trackers :
        /\ pc[p] = "fill_sleep"
        /\ resp[p].ans = "deleted"
        /\ item_trackers[k].stream_index >= 1
        /\ k \in DOMAIN state.item_trackers
        /\ state.item_trackers[k].stream_index = item_trackers[k].stream_index

\* the awaits of the reapplication of a completed download
ReapplyPcs ==
    {"mon_scrape", "mon_remove", "mon_add", "mon_retry", "mon_add_only",
     "mon_get_item", "mon_retry_found"}

\* two infohashes are the same up to the case of their letters
SameInfohash(a, b) == a = b \/ {a, b} \in {{"a1", "A1"}, {"b1", "B1"}}

\* some scraped stream carries the infohash h, up to case
ScrapeMatches(streams, h) ==
    \E i \in DOMAIN streams : SameInfohash(streams[i].infohash, h)

\* C13: when the scrape for a completed download of a real Library item
\* holds a stream with the completed infohash (up to case), the monitor
\* goes from scrape_item to remove_item for the item's id, from there to
\* add_item whether the removal succeeded or not, and from there to
\* retry_item; and none of the three calls is issued in another order.
C13_RealItemReapplied ==
    [][/\ ( /\ pc["mon"] = "mon_scrape"
            /\ resp'["mon"].ans = "scraped"
            /\ ScrapeMatches(resp'["mon"].streams, mon_download.infohash)
            /\ ~IsPseudoId(mon_item.id) )
          => /\ pc'["mon"] = "mon_remove"
             /\ mon_q' = mon_q
       /\ (pc["mon"] = "mon_remove" /\ pc'["mon"] # "mon_remove")
          => /\ pc'["mon"] = "mon_add"
             /\ resp'["mon"].ans \in {"removed", "not_removed"}
             /\ mon_item.id \in removed_ids'
             /\ mon_q' = mon_q
       /\ (pc["mon"] = "mon_add" /\ pc'["mon"] # "mon_add")
          => /\ pc'["mon"] = "mon_retry"
             /\ mon_q' = mon_q
       /\ pc'["mon"] = "mon_remove"
          => pc["mon"] \in {"mon_scrape", "mon_remove"}
       /\ pc'["mon"] = "mon_add" => pc["mon"] \in {"mon_remove", "mon_add"}
       /\ pc'["mon"] = "mon_retry" => pc["mon"] \in {"mon_add", "mon_retry"}
      ]_vars

\* remove_item has failed for a completed download of a real item and
\* add_item has been called all the same
C13_Witness ==
    /\ pc["mon"] = "mon_add"
    /\ resp["mon"].ans = "not_removed"
    /\ ~IsPseudoId(mon_item.id)

\* C14: when the scrape for a completed download of a pseudo-tracker holds
\* a matching stream, or when it holds none (any item), the monitor goes
\* from scrape_item to add_item, from there to get_item_by_ids, and from
\* there to retry_item exactly when an item was found; remove_item is not
\* called on the way.
C14_AddThenLookup ==
    [][/\ ( /\ pc["mon"] = "mon_scrape"
            /\ resp'["mon"].ans = "scraped"
            /\ \/ IsPseudoId(mon_item.id)
               \/ ~ScrapeMatches(resp'["mon"].streams, mon_download.infohash) )
          => /\ pc'["mon"] = "mon_add_only"
             /\ removed_ids' = removed_ids
             /\ mon_q' = mon_q
       /\ (pc["mon"] = "mon_add_only" /\ pc'["mon"] # "mon_add_only")
          => /\ pc'["mon"] = "mon_get_item"
             /\ removed_ids' = removed_ids
             /\ mon_q' = mon_q
       /\ (pc["mon"] = "mon_get_item" /\ pc'["mon"] # "mon_get_item")
          => /\ resp'["mon"].ans \in {"found", "none_found"}
             /\ (resp'["mon"].ans = "found") = (pc'["mon"] = "mon_retry_found")
             /\ resp'["mon"].ans = "none_found" => pc'["mon"] \notin ReapplyPcs
             /\ removed_ids' = removed_ids
       /\ (pc["mon"] = "mon_retry_found" /\ pc'["mon"] # "mon_retry_found")
          => /\ pc'["mon"] \notin ReapplyPcs
             /\ removed_ids' = removed_ids
       /\ pc'["mon"] = "mon_add_only"
          => pc["mon"] \in {"mon_scrape", "mon_add_only"}
       /\ pc'["mon"] = "mon_get_item"
          => pc["mon"] \in {"mon_add_only", "mon_get_item"}
       /\ pc'["mon"] = "mon_retry_found"
          => pc["mon"] \in {"mon_get_item", "mon_retry_found"}
      ]_vars

\* add_item has been called for a completed download of a pseudo-tracker
\* whose scrape held the completed infohash
C14_Witness ==
    /\ pc["mon"] = "mon_add_only"
    /\ resp["mon"].ans = "scraped"
    /\ IsPseudoId(mon_item.id)
    /\ ScrapeMatches(resp["mon"].streams, mon_download.infohash)

\* torrent id tid has no download tracker left after the step, neither in
\* rd_downloads nor in the store
Retired(tid) ==
    /\ tid \notin TorrentIds(rd_downloads')
    /\ tid \notin DOMAIN state'.rd_downloads

\* the step ends the handling of the download being checked with its id
\* marked for removal: it is in to_remove when the pass goes on, and it is
\* retired when the step is the end of the pass
MarkedOrRetired ==
    IF Len(mon_q) > 1
    THEN mon_download.torrent_id \in to_remove' /\ mon_q' = Tail(mon_q)
    ELSE mon_q' = <<>> /\ Retired(mon_download.torrent_id)

\* a monitor pass never forgets an id marked for removal, and its last
\* step retires every one of them
PassKeepsRemovals ==
    mon_q # <<>> =>
        IF mon_q' = <<>>
        THEN \A tid \in to_remove : Retired(tid)
        ELSE to_remove \subseteq to_remove'

\* the step that ends a monitor pass goes on to fill the slots: with a free
\* slot and a tracker that has candidates left, the monitor is suspended
\* in add_magnet for one of them
RefillTried ==
    (mon_q # <<>> /\ mon_q' = <<>>) =>
        ( ( /\ Len(rd_downloads') < max_active_rd_downloads
            /\ pending_trackers(item_trackers', tracker_order') # <<>> )
          => /\ pc'["mon"] = "add_magnet"
             /\ att'["mon"].key
                  \in Range(pending_trackers(item_trackers', tracker_order')) )

\* C15: when get_torrent_info reports a tracked torrent as downloaded, the
\* monitor starts the reapplication; whichever way the reapplication ends
\* (after retry_item, after get_item_by_ids found nothing, after the scrape
\* raised), the step that ends it records the item key in processed_items,
\* in memory and in the store, and marks the torrent id for removal; and
\* the last step of the pass removes every marked id from rd_downloads and
\* from the store.
C15_CompleteIsRetired ==
    [][/\ (pc["mon"] = "mon_info" /\ resp'["mon"].ans = "downloaded")
          => /\ pc'["mon"] = "mon_scrape"
             /\ mon_q' = mon_q
             /\ to_remove' = to_remove
       /\ ( /\ pc["mon"] \in ReapplyPcs
            /\ pc'["mon"] \in ReapplyPcs
            /\ pc'["mon"] # pc["mon"] )
          => /\ mon_q' = mon_q
             /\ to_remove' = to_remove
       /\ (pc["mon"] \in ReapplyPcs /\ pc'["mon"] \notin ReapplyPcs)
          => /\ mon_download.item_id \in processed_items'
             /\ mon_download.item_id \in Range(state'.processed_items)
             /\ MarkedOrRetired
       /\ PassKeepsRemovals
      ]_vars

\* the reapplication scrape of a completed download raised, and the pass
\* has ended: the item is recorded as processed and no download tracker is
\* left
C15_Witness ==
    /\ resp["mon"].ans = "scrape_raised"
    /\ mon_q = <<>>
    /\ rd_downloads = <<>>
    /\ state.rd_downloads = <<>>
    /\ processed_items # {}
    /\ processed_items \subseteq Range(state.processed_items)

C17_NotFoundIsRetired ==
    [][( /\ pc["mon"] = "mon_info"
         /\ mon_q' # mon_q
         /\ resp'["mon"].ans = "http_404" )
       => /\ pc'["mon"] # "mon_delete"
          /\ IF Len(mon_q) > 1
             THEN mon_download.torrent_id \in to_remove'
             ELSE Retired(mon_download.torrent_id)
      ]_vars

\* the listed torrents that are active
ActiveListed == { t \in Range(all_torrents) : is_active(t.status) }

\* torrent x comes no later than y in ascending (tracked, progress) order,
\* tracked as of the snapshot taken before the sort
NoLater(x, y) ==
    LET tx == IF x.id \in tracked_ids THEN 1 ELSE 0
        ty == IF y.id \in tracked_ids THEN 1 ELSE 0
    IN tx < ty \/ (tx = ty /\ x.progress <= y.progress)

\* C18: when the cap enforcement has run on a listing with n active
\* torrents, n above max_active_rd_downloads, it has called delete_torrent
\* exactly n - max_active_rd_downloads times, for distinct active torrents
\* that are the smallest in ascending (tracked, progress) order and in
\* that order; so a tracked one is among them only if every untracked
\* active one is, and of two equally tracked ones the one with less
\* progress goes first.
C18_CapDeletesSmallest ==
    (cpc = "idle" /\ Cardinality(ActiveListed) > max_active_rd_downloads)
    => LET gone == { t \in ActiveListed : t.id \in Range(deleted) }
           kept == ActiveListed \ gone
       IN /\ Len(deleted) = Cardinality(ActiveListed) - max_active_rd_downloads
          /\ Cardinality(Range(deleted)) = Len(deleted)
          /\ Cardinality(gone) = Len(deleted)
          /\ \A x \in gone, y \in kept : NoLater(x, y)
          /\ \A i, j \in DOMAIN deleted :
                 i < j => \A x, y \in gone :
                     (x.id = deleted[i] /\ y.id = deleted[j]) => NoLater(x, y)
          /\ (\E x \in gone : x.id \in tracked_ids)
                 => \A y \in ActiveListed : y.id \notin tracked_ids => y \in gone
          /\ \A x \in gone, y \in ActiveListed :
                 ( /\ (x.id \in tracked_ids) = (y.id \in tracked_ids)
                   /\ y.progress < x.progress ) => y \in gone

\* the cap enforcement has deleted two of three active torrents and kept
\* a tracked one
C18_Witness ==
    /\ cpc = "idle"
    /\ Cardinality(ActiveListed) = 3
    /\ Len(deleted) = 2
    /\ \E t \in ActiveListed : t.id \in tracked_ids /\ t.id \notin Range(deleted)

\* the added field says the torrent was added more than h hours ago
AddedBefore(t, h) == t.added.kind = "utc" /\ t.added.hours_ago > h

\* C19: when the sweep is over, a listed torrent has been deleted if and
\* only if it is failed, or dead, or waiting for its file selection,
\* untracked and added more than an hour ago, or active below 5 percent,
\* untracked and added more than rd_stuck_torrent_hours ago.
C19_SweepDeletesIff ==
    cpc = "cap_list" =>
        \A t \in Range(all_torrents) :
            (t.id \in Range(deleted)) =
            ( \/ is_failed(t.status)
              \/ is_stalled(t.status)
              \/ /\ is_waiting_selection(t.status)
                 /\ t.id \notin tracked_ids
                 /\ AddedBefore(t, orphan_hours)
              \/ /\ is_active(t.status)
                 /\ t.progress < stuck_progress
                 /\ t.id \notin tracked_ids
                 /\ AddedBefore(t, rd_stuck_torrent_hours) )

\* C20: the step in which a delete_torrent call of the cleanup loop
\* returns, in the sweep or in the cap enforcement, leaves no download
\* tracker of that torrent id in rd_downloads or in the store, and keeps
\* the other download trackers.
C20_DeletedIsUntracked ==
    [][(cpc \in {"sweep_delete", "cap_delete"} /\ deleted' # deleted)
       => LET tid == Head(todo).id
          IN /\ tid \in TorrentIds(rd_downloads) => Retired(tid)
             /\ \A d \in Range(rd_downloads) :
                    d.torrent_id # tid => d \in Range(rd_downloads')
      ]_vars

\* the cleanup loop is suspended in delete_torrent for a torrent that has
\* a download tracker
C20_Witness ==
    /\ cpc \in {"sweep_delete", "cap_delete"}
    /\ Head(todo).id \in TorrentIds(rd_downloads)
    /\ Head(todo).id \in DOMAIN state.rd_downloads

(***************************************************************************)
(* The retry stage of the problem scan.                                    *)
(***************************************************************************)
\* retry_count of the tracker under key k in the table its, 0 before the
\* tracker exists
RetryCount(its, k) == IF k \in DOMAIN its THEN its[k].retry_count ELSE 0

\* the library retry of a real item ends in this step: remove_item failed,
\* or add_item has answered
RealRetryEnds ==
    \/ pc["main"] = "retry_remove" /\ pc'["main"] # "retry_add"
    \/ pc["main"] = "retry_add"

\* C21: every library retry of a tracker raises its retry_count by exactly
\* one, whatever remove_item and add_item answer: for a real item the count
\* at the end of the retry is one more than during it, for a pseudo-tracker
\* the count is raised when the retry starts and add_item's answer leaves it
\* alone.
C21_RetryCountsEachAttempt ==
    [][ /\ RealRetryEnds =>
            RetryCount(item_trackers', cur)
                = RetryCount(item_trackers, cur) + 1
        /\ (pc["main"] = "retry_remove" /\ pc'["main"] = "retry_add") =>
            RetryCount(item_trackers', cur) = RetryCount(item_trackers, cur)
        /\ (RetryStarts /\ pc'["main"] = "retry_add_parent") =>
            RetryCount(item_trackers', cur')
                = RetryCount(item_trackers, cur') + 1
        /\ (RetryStarts /\ pc'["main"] = "retry_remove") =>
            RetryCount(item_trackers', cur') = RetryCount(item_trackers, cur')
        /\ pc["main"] = "retry_add_parent" =>
            RetryCount(item_trackers', cur) = RetryCount(item_trackers, cur)
      ]_vars

\* C22: two consecutive library retries of one tracker are at least
\* retry_interval_seconds apart in wall time, whatever the earlier one's
\* outcome and whatever the scan list holds: when a retry starts for a
\* tracker that had one before, the earlier one started at least
\* retry_interval ago.
C22_RetriesApart ==
    [][ (RetryStarts /\ cur' \in DOMAIN attempt_age) =>
            attempt_age[cur'] >= retry_interval ]_vars

\* the loop of _check_problem_items handles an item in this step
ItemHandled ==
    /\ pc["main"] = "items"
    /\ pc'["main"] \in {"items", "retry_remove", "retry_add_parent", "scrape"}

\* C23: when a movie or show that already has a tracker is listed with a
\* state outside the problem set, the handling of it removes the tracker
\* from item_trackers and from the store and makes no call: the loop is at
\* its next item.
C23_LeftProblemSetDropped ==
    [][ ( /\ ItemHandled
          /\ is_released(scan_item')
          /\ scan_item'.type \notin {"season", "episode"}
          /\ scan_item'.id \in DOMAIN item_trackers
          /\ scan_item'.state \notin problem_states )
        => /\ scan_item'.id \notin DOMAIN item_trackers'
           /\ scan_item'.id \notin DOMAIN state'.item_trackers
           /\ pc'["main"] = "items" ]_vars

\* the time aired_at names is after now
AiredInFuture(item) == item.aired_at \in {"future", "future+00:00"}

\* C24: an item whose aired_at is in the future is skipped: its handling
\* creates no tracker, changes none and makes no call, the loop is at its
\* next item; an item without aired_at or with one that is no timestamp is
\* handled as released, which for an item without a tracker means that a
\* tracker is created or a parent show is looked at.
C24_UnreleasedSkipped ==
    [][ /\ (ItemHandled /\ AiredInFuture(scan_item')) =>
            /\ pc'["main"] = "items"
            /\ item_trackers' = item_trackers
            /\ state' = state
        /\ ( /\ ItemHandled
             /\ scan_item'.aired_at \in {NoneStr, "garbage"}
             /\ scan_item'.type = "movie"
             /\ scan_item'.state \in problem_states )
           => scan_item'.id \in DOMAIN item_trackers' ]_vars

(***************************************************************************)
(* The candidates a scrape leaves in the tracker.                          *)
(***************************************************************************)
\* where x stands in the list
PosIn(seq, x) == CHOOSE i \in DOMAIN seq : seq[i] = x

\* kept is the scrape result found cut to its limit highest ranks: sorted
\* by rank descending, equal ranks in the order of found, nothing twice,
\* and nothing left out that outranks an entry kept
TopRanked(kept, found, limit) ==
    /\ Len(kept) = (IF Len(found) < limit THEN Len(found) ELSE limit)
    /\ \A i \in DOMAIN kept : kept[i] \in Range(found)
    /\ \A i, j \in DOMAIN kept :
         i < j => /\ kept[i].rank >= kept[j].rank
                  /\ kept[i] # kept[j]
                  /\ kept[i].rank = kept[j].rank =>
                        PosIn(found, kept[i]) < PosIn(found, kept[j])
    /\ \A x \in Range(found) \ Range(kept) :
         \A i \in DOMAIN kept :
            \/ kept[i].rank > x.rank
            \/ kept[i].rank = x.rank /\ PosIn(found, kept[i]) < PosIn(found, x)

\* C25: after scrape_item has answered without an error, the tracker's
\* streams are at most max_rd_torrents entries (the spec's
\* max_candidate_streams), the highest-ranked of the answer, sorted by rank
\* descending with equal ranks in the answer's order; after an empty answer
\* the item is in processed_items and in the store's list and the tracker's
\* streams are empty.
C25_StreamsTopRanked ==
    [][ (pc["main"] = "scrape" /\ resp'["main"].ans = "scraped") =>
          LET found == resp'["main"].streams
              t == item_trackers'[cur]
          IN IF found = <<>>
             THEN /\ t.streams = <<>>
                  /\ t.item.id \in processed_items'
                  /\ t.item.id \in Range(state'.processed_items)
             ELSE /\ TopRanked(t.streams, found, max_rd_torrents)
                  /\ Len(t.streams) <= max_rd_torrents
                  /\ t.stream_index = 0
                  /\ state'.item_trackers[cur].streams = t.streams ]_vars

\* a scrape has answered with more streams than are kept, among them equal
\* ranks, and the tracker holds the cut list
C25_Witness ==
    /\ resp["main"].ans = "scraped"
    /\ Len(resp["main"].streams) > max_rd_torrents
    /\ \E k \in DOMAIN item_trackers :
         /\ Len(item_trackers[k].streams) = max_rd_torrents
         /\ item_trackers[k].streams[1].rank = item_trackers[k].streams[2].rank
         /\ Range(item_trackers[k].streams) \subseteq Range(resp["main"].streams)

(***************************************************************************)
(* Durability of the State Store.                                          *)
(***************************************************************************)
\* a mutator call returns in this step
CallReturns ==
    /\ boots' = boots
    /\ spc' = "idle"
    /\ spc # "idle" \/ state' # state

\* C26: when a mutator of the State Store returns, the state file holds
\* the state with the mutation: a crash right after it and load() in the
\* restarted process give self._state as the call left it.
C26_ReturnedIsDurable == [][ CallReturns => load(file') = state' ]_vars

\* C27: a crash at any point of a save leaves a file from which load()
\* gives what it would have given before the save began, or the whole
\* state that was being saved.
C27_SaveIsAtomic ==
    [][ (boots' # boots /\ spc # "idle") =>
            state' \in {load(before), state} ]_vars

\* C28: an item tracker written with to_dict, read back with from_dict and
\* written with to_dict again gives the dict of the first to_dict, in every
\* field
C28_RoundTrip ==
    trip # <<>> =>
      LET d == ItemTracker_to_dict(trip.tracker)
      IN ItemTracker_to_dict(ItemTracker_from_dict(d)) = d

\* a restored tracker of a parent show or of an item with parent ids, with
\* a retry made, streams scraped and one of them tried
C28_Witness ==
    /\ trip # <<>>
    /\ trip.restored
    /\ trip.tracker.last_retry # NoneStr
    /\ trip.tracker.stream_index > 0
    /\ Len(trip.tracker.streams) > 1
    /\ trip.tracker.item.parent_ids # <<>>

\* C29: after a restart every restored download whose item_id is a key of
\* the restored item_trackers has that entry as its item tracker: the same
\* stream_index, streams and retry state
C29_DownloadsRehydrated ==
    [][ boots' # boots =>
          \A i \in DOMAIN rd_downloads' :
            rd_downloads'[i].item_id \in DOMAIN item_trackers' =>
              own_tracker'[rd_downloads'[i].torrent_id]
                = item_trackers'[rd_downloads'[i].item_id] ]_vars

\* the picks between pick i and pick j
Between(i, j) == { picks[n].key : n \in (i + 1)..(j - 1) }

\* C30: the cursor moves on with every pick, so that two picks in a row
\* over the same eligible trackers, more than one, are of different
\* trackers; and between two consecutive picks of one tracker every other
\* tracker that was eligible from the first to the second is picked
C30_RoundRobinFair ==
    /\ \A i \in DOMAIN picks :
         (/\ i + 1 \in DOMAIN picks
          /\ picks[i + 1].pending = picks[i].pending
          /\ Cardinality(picks[i].pending) > 1)
         => picks[i + 1].key # picks[i].key
    /\ \A i, j \in DOMAIN picks :
         (/\ i < j
          /\ picks[i].key = picks[j].key
          /\ picks[i].key \notin Between(i, j))
         => \A c \in Range(tracker_order) \ {picks[i].key} :
              (\A n \in i..j : c \in picks[n].pending)
              => c \in Between(i, j)

\* the predicates a status satisfies
Kinds(status) ==
    {k \in {"failed", "stalled", "waiting_selection", "active", "complete"} :
       CASE k = "failed" -> is_failed(status)
         [] k = "stalled" -> is_stalled(status)
         [] k = "waiting_selection" -> is_waiting_selection(status)
         [] k = "active" -> is_active(status)
         [] OTHER -> is_complete(status)}

\* the statuses of the enumeration a predicate holds of
Of(kind) == {s \in RawStatuses : kind \in Kinds(s)}

\* C32: the five predicates split the raw statuses into failed, stalled,
\* waiting for selection, active and complete as listed, every raw status
\* satisfies exactly one of them, and so does every raw status the Debrid
\* answers to a poll or to the monitor
C32_StatusPartition ==
    /\ Of("failed") = {"magnet_error", "error", "virus"}
    /\ Of("stalled") = {"dead"}
    /\ Of("waiting_selection") = {"waiting_files_selection"}
    /\ Of("active") = {"magnet_conversion", "queued", "downloading",
                       "compressing", "uploading"}
    /\ Of("complete") = {"downloaded"}
    /\ \A s \in RawStatuses : Cardinality(Kinds(s)) = 1
    /\ \A p \in Tasks :
         resp[p].ans \in RawStatuses => Cardinality(Kinds(resp[p].ans)) = 1

\* the monitor has been answered a dead torrent and a poll an active one
C32_Witness ==
    /\ resp["mon"].ans = "dead"
    /\ is_active(resp["main"].ans)

\* the monitor has just looked at a torrent that is neither complete,
\* failed nor dead
Looked ==
    /\ pc["mon"] = "mon_info"
    /\ pc'["mon"] # "mon_info" \/ mon_q' # mon_q
    /\ "elapsed" \in DOMAIN resp'["mon"]

\* C35: a tracked torrent that is neither complete, failed nor dead goes to
\* delete_torrent, and is marked for removal when the call returns, exactly
\* when the time since started_at is over rd_max_wait and the torrent is
\* active with progress below 10; otherwise delete_torrent is not called
\* and the download tracker stays in rd_downloads and in the store
C35_StalledIffLateAndSlow ==
    [][/\ Looked =>
            LET w == resp'["mon"]
                tid == mon_download.torrent_id
            IN IF /\ w.elapsed > rd_max_wait_hours
                  /\ w.ans \in {"magnet_conversion", "queued", "downloading",
                                 "compressing", "uploading"}
                  /\ w.progress < slow_progress
               THEN /\ pc'["mon"] = "mon_delete"
                    /\ mon_q' = mon_q
               ELSE /\ pc'["mon"] # "mon_delete"
                    /\ tid \notin to_remove'
                    /\ tid \in TorrentIds(rd_downloads)
                         => tid \in TorrentIds(rd_downloads')
                    /\ tid \in DOMAIN state.rd_downloads
                         => tid \in DOMAIN state'.rd_downloads
       /\ ( /\ pc["mon"] = "mon_delete"
            /\ pc'["mon"] # "mon_delete"
            /\ "elapsed" \in DOMAIN resp["mon"] )
          => MarkedOrRetired
       /\ PassKeepsRemovals
      ]_vars

\* delete_torrent has been called for a download past the wait with an
\* active torrent at 9 percent
C35_Witness ==
    /\ pc["mon"] = "mon_delete"
    /\ "elapsed" \in DOMAIN resp["mon"]
    /\ resp["mon"].elapsed > rd_max_wait_hours
    /\ resp["mon"].progress < slow_progress
    /\ mon_download.torrent_id \in TorrentIds(rd_downloads)

\* C36: wherever the tasks are suspended, the store holds what the engine
\* holds: the same tracker keys, download ids and processed items, and for
\* every tracker the record of the tracker as it is in memory
C36_StoreMirrorsEngine ==
    /\ DOMAIN state.item_trackers = DOMAIN item_trackers
    /\ DOMAIN state.rd_downloads = TorrentIds(rd_downloads)
    /\ Range(state.processed_items) = processed_items
    /\ \A k \in DOMAIN item_trackers \cap DOMAIN state.item_trackers :
         state.item_trackers[k] = tracker_to_dict(item_trackers[k])

\* save() ended with an error caught, and save() ended with the file
\* written and closed
SaveFailed ==
    /\ boots' = boots
    /\ spc # "idle" /\ spc' = "idle"
    /\ file' = file
SaveDone ==
    /\ boots' = boots
    /\ spc = "write" /\ spc' = "idle"
    /\ file' # file

\* C37: a save that fails raises nothing and leaves self._state as the
\* mutator changed it, the mutator having changed it whether or not the
\* save will work; and a save that succeeds writes the whole of
\* self._state, the changes of earlier calls whose saves failed included
C37_FailedSaveKeepsState ==
    [][/\ SaveFailed => state' = state
       /\ (spc = "idle" /\ spc' = "open")
          => /\ \/ \E c \in TrackerCalls : state' = mutated(state, c)
                \/ \E c \in DownloadCalls : state' = mutated(state, c)
             /\ file' = file
       /\ SaveDone => load(file') = state'
      ]_vars

\* the file holds a tracker and a processed item after a save, while the
\* file was still the empty document when the last mutator was called: the
\* save of the call before it had failed
C37_Witness ==
    /\ spc = "idle"
    /\ boots = 0
    /\ load(before) = EmptyState
    /\ state.item_trackers # <<>>
    /\ state.processed_items # <<>>
    /\ file = dumps(state)

(***************************************************************************)
(* The adapters on their own: RivenClient and RealDebridClient, one method *)
(* call at a time.  Each method reaches its service through _request; the  *)
(* Library holds up to MaxCatalog items in any state.                      *)
(***************************************************************************)
MaxCatalog == 2

\* config.problem_states, and the literal of get_item_by_ids, as str values
asked_states == {"s" \o st : st \in problem_states}

\* the Library's JSON for an item in a given state; <<>> has no state key
catalog_item(id, st) ==
    [id |-> <<id>>, title |-> <<"sTitle">>, state |-> st,
     type |-> <<"smovie">>,
     imdb_id |-> <<>>, tmdb_id |-> <<"i12">>, tvdb_id |-> <<>>,
     scraped_times |-> <<>>, parent_title |-> <<>>,
     season_number |-> <<>>, episode_number |-> <<>>,
     parent_ids |-> <<>>, aired_at |-> <<>>]
CatalogStates == {<<"sFailed">>, <<"sUnknown">>, <<"sCompleted">>, <<>>}
Catalogs ==
    UNION { { [i \in 1..n |-> catalog_item(IF i = 1 THEN "i7" ELSE "i2", f[i])] :
                f \in [1..n -> CatalogStates] } : n \in 0..MaxCatalog }

\* the methods the engine calls, by client
RivenMethods ==
    {"health_check", "get_problem_items", "scrape_item", "retry_item",
     "remove_item", "add_item", "get_item_by_ids"}
RealDebridMethods ==
    {"get_user", "get_torrents", "get_torrent_info", "get_active_count",
     "add_magnet", "select_files", "delete_torrent"}

\* the methods that catch the exception of a failed request
Catching ==
    {"health_check", "get_problem_items", "retry_item", "remove_item",
     "add_item", "get_item_by_ids", "select_files", "delete_torrent"}

\* what _request does, in order, without the limiter
RivenClient_request_direct ==
    << [do |-> "request", service |-> "riven"] >>

\* RivenClient._request: acquire on the limiter, then the HTTP request
RivenClient_request ==
    << [do |-> "acquire", service |-> "riven"],
       [do |-> "request", service |-> "riven"] >>

\* RealDebridClient._request
RealDebridClient_request ==
    << [do |-> "acquire", service |-> "rd"],
       [do |-> "request", service |-> "rd"] >>

request_of(op) ==
    IF op \in RivenMethods THEN RivenClient_request
    ELSE RealDebridClient_request

\* GET /items with a states query: <<body>> from a Library that filters,
\* from one that ignores the query and from one that answers without an
\* items key; <<>> for an error status or no answer, which _request raises
FilteredAnswers(catalog, states) ==
    { << [items |-> << SelectSeq(catalog,
                         LAMBDA it : it.state # <<>>
                                     /\ it.state[1] \in states) >>] >>,
      << [items |-> <<catalog>>] >>,
      << [items |-> <<>>] >>,
      <<>> }

\* GET /items without the query
UnfilteredAnswers(catalog) ==
    { << [items |-> <<catalog>>] >>, << [items |-> <<>>] >>, <<>> }

\* [MediaItem.from_dict(item) for item in result.get("items", [])]
items_of(result) ==
    [i \in DOMAIN get(result, "items", <<>>) |->
       MediaItem_from_dict(get(result, "items", <<>>)[i])]

\* [MediaItem.from_dict(item) for item in all_items
\*  if item.get("state") in states]
filtered_items(result, states) ==
    LET all_items == get(result, "items", <<>>)
        kept == SelectSeq(all_items,
                  LAMBDA it : get(it, "state", NoneStr) \in states)
    IN [i \in DOMAIN kept |-> MediaItem_from_dict(kept[i])]

NoCall(catalog) ==
    [op |-> "none", states |-> {}, catalog |-> catalog, path |-> <<>>,
     n |-> 0, wire |-> <<>>, result |-> <<>>, returned |-> FALSE]

beside_call ==
    UNCHANGED <<engine, tasks, scan, mon, history, next_tid,
                skip_riven_retry, library, cleanup, wall, scan_item,
                store_io, trip, own_tracker, picks, halt>>

\* the engine calls a method, which calls _request
Invoke ==
    /\ call.op = "none"
    /\ \E op \in RivenMethods \cup RealDebridMethods :
         call' = [call EXCEPT !.op = op,
                    !.states = IF op \in {"get_problem_items", "get_item_by_ids"}
                               THEN asked_states ELSE {},
                    !.path = request_of(op), !.n = 1, !.wire = <<>>,
                    !.result = <<>>, !.returned = FALSE]
    /\ beside_call

\* await self.rate_limiter.acquire(service) returns
Acquire ==
    /\ call.path # <<>>
    /\ Head(call.path).do = "acquire"
    /\ call' = [call EXCEPT !.wire = Append(@, Head(call.path)),
                            !.path = Tail(@)]
    /\ beside_call

Sent == Append(call.wire, Head(call.path))

ListsItems == call.op \in {"get_problem_items", "get_item_by_ids"}

\* the filtered request of get_problem_items is answered
ProblemItemsAnswer ==
    /\ call.path # <<>>
    /\ Head(call.path).do = "request"
    /\ ListsItems
    /\ call.n = 1
    /\ \E answer \in FilteredAnswers(call.catalog, call.states) :
         call' = IF answer = <<>>
                 THEN [call EXCEPT !.wire = Sent, !.n = 2,
                                   !.path = request_of(call.op)]
                 ELSE [call EXCEPT !.wire = Sent, !.path = <<>>,
                                   !.result = items_of(answer[1]),
                                   !.returned = TRUE]
    /\ beside_call

\* the request without the states query is answered
FallbackAnswer ==
    /\ call.path # <<>>
    /\ Head(call.path).do = "request"
    /\ ListsItems
    /\ call.n = 2
    /\ \E answer \in UnfilteredAnswers(call.catalog) :
         call' = [call EXCEPT !.wire = Sent, !.path = <<>>,
                    !.result = IF answer = <<>> THEN <<>>
                               ELSE filtered_items(answer[1], call.states),
                    !.returned = TRUE]
    /\ beside_call

\* the one request of any other method is answered
OtherAnswer ==
    /\ call.path # <<>>
    /\ Head(call.path).do = "request"
    /\ ~ListsItems
    /\ \E ok \in BOOLEAN :
         call' = [call EXCEPT !.wire = Sent, !.path = <<>>,
                    !.result = IF ok THEN <<"value">>
                               ELSE IF call.op \in Catching THEN <<"False">>
                               ELSE <<"raised">>,
                    !.returned = TRUE]
    /\ beside_call

\* the engine goes on; the Library's content may have changed by the next
\* call
Return ==
    /\ call.returned
    /\ \E catalog \in Catalogs : call' = NoCall(catalog)
    /\ beside_call

InitAdapter ==
    /\ item_trackers = <<>>
    /\ tracker_order = <<>>
    /\ rd_downloads = <<>>
    /\ processed_items = {}
    /\ rr_index = 0
    /\ state = [item_trackers |-> <<>>, rd_downloads |-> <<>>,
                processed_items |-> <<>>]
    /\ skip_riven_retry = FALSE
    /\ library = MovieItems
    /\ pc = [p \in Tasks |-> "idle"]
    /\ ret = [p \in Tasks |-> ""]
    /\ total_active = [p \in Tasks |-> 0]
    /\ att = [p \in Tasks |-> NoAtt]
    /\ polls = [p \in Tasks |-> 0]
    /\ parent_shows_queued = {}
    /\ cur = <<>>
    /\ mon_q = <<>>
    /\ to_remove = {}
    /\ next_tid = 1
    /\ attempts = <<>>
    /\ removed_ids = {}
    /\ refused = {}
    /\ resp = [p \in Tasks |-> NoResp]
    /\ cpc = "idle"
    /\ all_torrents = <<>>
    /\ todo = <<>>
    /\ tracked_ids = {}
    /\ utc_offset = 0
    /\ deleted = <<>>
    /\ retry_age = <<>>
    /\ attempt_age = <<>>
    /\ scan_item = NoItem
    /\ StoreAtRest(state)
    /\ trip = <<>>
    /\ own_tracker = <<>>
    /\ picks = <<>>
    /\ halt = <<>>
    /\ \E catalog \in Catalogs : call = NoCall(catalog)

NextAdapter ==
    \/ Invoke
    \/ Acquire
    \/ ProblemItemsAnswer
    \/ FallbackAnswer
    \/ OtherAnswer
    \/ Return

SpecAdapter == InitAdapter /\ [][NextAdapter]_vars

\* C34: what get_problem_items returns holds only items whose state is one
\* of the states asked for, however the Library answered the request with
\* the states query.
C34_OnlyAskedStates ==
    (call # <<>> /\ call.op = "get_problem_items" /\ call.returned)
    => \A i \in DOMAIN call.result : call.result[i].state \in call.states

\* the fallback of get_problem_items filters, and two failed requests give
\* the empty list
C34_FallbackFilters ==
    (call # <<>> /\ call.op = "get_problem_items" /\ call.returned
     /\ call.n = 2)
    => \A i \in DOMAIN call.result : call.result[i].state \in call.states

\* C33: on the wire, every request to a service comes right after an
\* acquire on the limiter of the same service.
C33_AcquireBeforeRequest ==
    call # <<>> =>
      \A i \in DOMAIN call.wire :
        call.wire[i].do = "request"
        => /\ i > 1
           /\ call.wire[i - 1] = [do |-> "acquire",
                                  service |-> call.wire[i].service]

\* get_problem_items returned after its fallback: two requests to the
\* Library went out, each behind its acquire; and a Debrid method returned
C33_Witness ==
    /\ call # <<>>
    /\ call.returned
    /\ \/ /\ call.op = "get_problem_items"
          /\ Len(call.wire) = 4
       \/ /\ call.op = "delete_torrent"
          /\ Len(call.wire) = 2

(***************************************************************************)
(* start() and stop().  start() has set _running, checked both services    *)
(* and created the three loop tasks; it awaits them.  A loop task is       *)
(* "created" before it ran for the first time, then "cycle" while its      *)
(* cycle is suspended at an await, "sleep" inside _interruptible_sleep,    *)
(* and in the end "finished" (it returned) or "cancelled" (CancelledError  *)
(* left it).  stop() runs on the same event loop, so it finds every loop   *)
(* task at one of these places.                                            *)
(***************************************************************************)
Loops == {"_main_check_loop", "_rd_monitor_loop", "_rd_cleanup_loop"}

done(at) == at \in {"finished", "cancelled"}

\* a gather that does not wait
gather_without_waiting(loop) == TRUE

\* asyncio.gather(*self._tasks, ...) returns once every task is done
gather(loop) == \A l \in Loops : done(loop[l])

\* while self._running: the cycle when it holds, the end of the loop else
while_running(running) == IF running THEN "cycle" ELSE "finished"

beside_halt ==
    UNCHANGED <<engine, tasks, scan, mon, history, next_tid,
                skip_riven_retry, library, cleanup, wall, scan_item,
                store_io, trip, own_tracker, picks, call>>

\* a task runs for the first time; a task cancelled before that never runs
LoopStart(l) ==
    /\ halt.loop[l] = "created"
    /\ halt' = [halt EXCEPT !.loop[l] =
                  IF halt.must_cancel[l] THEN "cancelled"
                  ELSE while_running(halt.running)]
    /\ beside_halt

\* the await the cycle is suspended at completes: with CancelledError, which
\* no except Exception catches and the loop raises again, or else with the
\* end of the cycle (an Exception is logged) and the call of
\* _interruptible_sleep
CycleEnd(l) ==
    /\ halt.loop[l] = "cycle"
    /\ halt' = [halt EXCEPT !.loop[l] =
                  IF halt.must_cancel[l] THEN "cancelled" ELSE "sleep"]
    /\ beside_halt

\* wait_for(self._shutdown_event.wait(), timeout) completes: cancelled, or
\* True with the event set (also when a cancellation met the set event
\* inside wait_for), which breaks the loop, or False after the timeout
SleepEnd(l) ==
    /\ halt.loop[l] = "sleep"
    /\ \E at \in IF halt.must_cancel[l]
                 THEN {"cancelled"} \cup
                      (IF halt.event THEN {"finished"} ELSE {})
                 ELSE IF halt.event THEN {"finished"}
                 ELSE {while_running(halt.running)} :
         halt' = [halt EXCEPT !.loop[l] = at]
    /\ beside_halt

\* stop() up to its await: the flag, the event, cancel() on every task that
\* is not done
Stop ==
    /\ halt.stop = "no"
    /\ halt' = [halt EXCEPT !.running = FALSE, !.event = TRUE,
                  !.must_cancel = [l \in Loops |-> ~done(halt.loop[l])],
                  !.stop = "gather"]
    /\ beside_halt

\* await asyncio.gather(*self._tasks, return_exceptions=True) returns
StopReturn ==
    /\ halt.stop = "gather"
    /\ gather(halt.loop)
    /\ halt' = [halt EXCEPT !.stop = "returned"]
    /\ beside_halt

\* await asyncio.gather(*self._tasks) in start() ends with the first task
\* that is cancelled
StartReturn ==
    /\ halt.start = "gather"
    /\ \E l \in Loops : halt.loop[l] = "cancelled"
    /\ halt' = [halt EXCEPT !.start = "returned"]
    /\ beside_halt

InitStop ==
    /\ item_trackers = <<>>
    /\ tracker_order = <<>>
    /\ rd_downloads = <<>>
    /\ processed_items = {}
    /\ rr_index = 0
    /\ state = [item_trackers |-> <<>>, rd_downloads |-> <<>>,
                processed_items |-> <<>>]
    /\ skip_riven_retry = FALSE
    /\ library = MovieItems
    /\ pc = [p \in Tasks |-> "idle"]
    /\ ret = [p \in Tasks |-> ""]
    /\ total_active = [p \in Tasks |-> 0]
    /\ att = [p \in Tasks |-> NoAtt]
    /\ polls = [p \in Tasks |-> 0]
    /\ parent_shows_queued = {}
    /\ cur = <<>>
    /\ mon_q = <<>>
    /\ to_remove = {}
    /\ next_tid = 1
    /\ attempts = <<>>
    /\ removed_ids = {}
    /\ refused = {}
    /\ resp = [p \in Tasks |-> NoResp]
    /\ cpc = "idle"
    /\ all_torrents = <<>>
    /\ todo = <<>>
    /\ tracked_ids = {}
    /\ utc_offset = 0
    /\ deleted = <<>>
    /\ retry_age = <<>>
    /\ attempt_age = <<>>
    /\ scan_item = NoItem
    /\ StoreAtRest(state)
    /\ trip = <<>>
    /\ own_tracker = <<>>
    /\ picks = <<>>
    /\ call = <<>>
    /\ halt = [running |-> TRUE, event |-> FALSE,
               loop |-> [l \in Loops |-> "created"],
               must_cancel |-> [l \in Loops |-> FALSE],
               start |-> "gather", stop |-> "no"]

NextStop ==
    \/ \E l \in Loops : LoopStart(l)
    \/ \E l \in Loops : CycleEnd(l)
    \/ \E l \in Loops : SleepEnd(l)
    \/ Stop
    \/ StopReturn
    \/ StartReturn

SpecStop == InitStop /\ [][NextStop]_vars

\* the event loop runs every task that is ready, and an await that was
\* cancelled or whose call or timeout is over makes its task ready
SpecStopLive ==
    /\ SpecStop
    /\ \A l \in Loops : WF_vars(LoopStart(l) \/ CycleEnd(l) \/ SleepEnd(l))
    /\ WF_vars(StopReturn)

\* C31: stop() returns only after the three loop tasks are done; once the
\* signal is set no loop starts a cycle, so that a loop in its sleep leaves
\* without one; and after the signal every loop task ends and stop()
\* returns.
C31_StopDrains ==
    /\ [](halt # <<>> /\ halt.stop = "returned"
          => \A l \in Loops : done(halt.loop[l]))
    /\ [][halt # <<>> /\ halt.event
          => \A l \in Loops : halt'.loop[l] = "cycle"
                              => halt.loop[l] = "cycle"]_vars
    /\ ((halt # <<>> /\ halt.event)
        ~> (halt.stop = "returned" /\ \A l \in Loops : done(halt.loop[l])))

\* stop() has returned, one loop having left its sleep by the set event and
\* another by CancelledError
C31_Witness ==
    /\ halt # <<>>
    /\ halt.stop = "returned"
    /\ \E l \in Loops : halt.loop[l] = "finished"
    /\ \E l \in Loops : halt.loop[l] = "cancelled"

(***************************************************************************)
(* The retry stage for ever: the Library holds one released movie in       *)
(* state Failed and lists it at every scan; the main loop keeps running.   *)
(***************************************************************************)
InitRetry ==
    /\ item_trackers = <<>>
    /\ tracker_order = <<>>
    /\ rd_downloads = <<>>
    /\ processed_items = {}
    /\ rr_index = 0
    /\ state = [item_trackers |-> <<>>, rd_downloads |-> <<>>,
                processed_items |-> <<>>]
    /\ skip_riven_retry = FALSE
    /\ library = RankedMovieItems
    /\ pc = [p \in Tasks |-> "idle"]
    /\ ret = [p \in Tasks |-> ""]
    /\ total_active = [p \in Tasks |-> 0]
    /\ att = [p \in Tasks |-> NoAtt]
    /\ polls = [p \in Tasks |-> 0]
    /\ parent_shows_queued = {}
    /\ cur = <<>>
    /\ mon_q = <<>>
    /\ to_remove = {}
    /\ next_tid = 1
    /\ attempts = <<>>
    /\ removed_ids = {}
    /\ refused = {}
    /\ resp = [p \in Tasks |-> NoResp]
    /\ cpc = "idle"
    /\ all_torrents = <<>>
    /\ todo = <<>>
    /\ tracked_ids = {}
    /\ utc_offset = 0
    /\ deleted = <<>>
    /\ retry_age = <<>>
    /\ attempt_age = <<>>
    /\ scan_item = NoItem
    /\ StoreAtRest(state)
    /\ trip = <<>>
    /\ own_tracker = <<>>
    /\ picks = <<>>
    /\ call = <<>>
    /\ halt = <<>>

\* the answer to get_problem_items arrives; its one item is yet to be
\* handled
ListedResp ==
    /\ pc["main"] = "scan"
    /\ Suspend("main", NextItem(rr_index))
    /\ parent_shows_queued' = {}
    /\ scan_item' = NoItem
    /\ UNCHANGED <<engine, cur, mon, next_tid, skip_riven_retry, library,
                   cleanup, wall, store_io, later, attempts, removed_ids,
                   refused>>

\* the loop over the items reaches the one item of the answer
ListedItem ==
    /\ scan_item = NoItem
    /\ ScanItem

\* and then the end of the list
ListedEnd ==
    /\ scan_item # NoItem
    /\ ItemsEnd

RetrySteps ==
    \/ MainWake
    \/ ListedResp
    \/ ListedItem
    \/ ListedEnd
    \/ RetryRemoveResp
    \/ ScanRetryAddResp
    \/ ScrapeResp
    \/ AddMagnetResp("main")
    \/ PollResp("main")
    \/ PollSleepDone("main")
    \/ SelectResp("main")
    \/ DeleteResp("main")
    \/ FillSleepDone("main")

NextRetry ==
    \/ RetrySteps
    \/ Tick

\* the main loop takes its next step whenever it has one, and time passes
SpecRetryLive ==
    /\ InitRetry
    /\ [][NextRetry]_vars
    /\ WF_vars(RetrySteps)
    /\ WF_vars(Tick)

\* C38: the released movie that every scan lists has its manual scraping
\* started in the end, whatever remove_item and add_item return.
C38_ScrapeStartsInTheEnd ==
    <>(\E k \in DOMAIN item_trackers :
         item_trackers[k].manual_scrape_started)

\* SpecFill with the monitor task taking its next step whenever it has one:
\* every call to the Debrid returns or times out, every sleep ends
SpecFillLive == SpecFill /\ WF_vars(NextFill)

\* the monitor task is inside _fill_rd_slots
InFill ==
    pc["mon"] \in {"add_magnet", "poll", "poll_sleep", "select", "delete",
                   "fill_sleep"}

\* _try_add_one_stream returns with this step
AttemptOver ==
    /\ pc["mon"] \in {"add_magnet", "select", "delete"}
    /\ pc'["mon"] \in {"fill_sleep", "idle", "add_magnet"}

\* C39: _fill_rd_slots ends; each of its attempts moves the stream_index of
\* the tracker it picked, which had a candidate left, on by one; and when it
\* returns, there is no free slot or no tracker with a candidate left.
C39_FillTerminates ==
    /\ InFill ~> ~InFill
    /\ [][AttemptOver =>
            LET k == att["mon"].key
            IN /\ item_trackers[k].stream_index < Len(item_trackers[k].streams)
               /\ item_trackers'[k].stream_index
                    = item_trackers[k].stream_index + 1]_vars
    /\ [][InFill /\ ~InFill' =>
            \/ Len(rd_downloads') >= max_active_rd_downloads
            \/ pending_trackers(item_trackers', tracker_order') = <<>>]_vars

\* _fill_rd_slots has returned with the slot free, every candidate of every
\* tracker tried
C39_Witness ==
    /\ picks # <<>>
    /\ pc["mon"] = "idle"
    /\ Len(rd_downloads) < max_active_rd_downloads
    /\ item_trackers # <<>>
    /\ \A k \in DOMAIN item_trackers :
         item_trackers[k].stream_index = Len(item_trackers[k].streams)

(***************************************************************************)
(* The cleanup loop beside a slot fill: the monitor task fills the slot    *)
(* step by step while the cleanup loop sweeps and enforces the cap.  The   *)
(* Debrid lists only torrents that add_magnet has made, and the torrent    *)
(* of the attempt under way as added less than an hour ago.                *)
(***************************************************************************)
Made(listed) == \A i \in DOMAIN listed : listed[i].id < next_tid

JustAdded(listed) ==
    \A i \in DOMAIN listed :
      listed[i].id = att["mon"].tid => listed[i].added = AddedAgo(0)

\* get_torrents of the sweep answers
RaceListResp ==
    /\ ListResp
    /\ Made(all_torrents')
    /\ JustAdded(all_torrents')

\* get_torrents of the cap enforcement answers
RaceCapListResp == CapListResp /\ Made(all_torrents')

NextRace ==
    \/ CleanupWake
    \/ CountResp
    \/ RaceListResp
    \/ SweepDeleteResp
    \/ RaceCapListResp
    \/ CapSleepDone
    \/ CapDeleteResp
    \/ FillWake
    \/ AddMagnetResp("mon")
    \/ PollResp("mon")
    \/ PollSleepDone("mon")
    \/ SelectResp("mon")
    \/ DeleteResp("mon")
    \/ FillSleepDone("mon")

SpecRace == InitCleanup /\ [][NextRace]_vars

\* C40: rd_downloads holds no download tracker for a torrent id the cleanup
\* loop has called delete_torrent with.
C40_NoTrackerForDeleted ==
    \A i \in DOMAIN rd_downloads :
      rd_downloads[i].torrent_id \notin Range(deleted)

====
